---------------------------- MODULE Spec2Model ----------------------------
(***************************************************************************)
(* The 2048 grid engine of frontend/src/App.jsx (src/unnamed/part_000):    *)
(* the App component's game state (grid, score, bestScore, gameOver, the   *)
(* bestScore entry of localStorage) and the operations on it: the mount    *)
(* effect, move(direction) and newGame.                                    *)
(*                                                                         *)
(* A JavaScript array is a sequence, indexed from 1: JavaScript's arr[k]   *)
(* is At(arr, k) = arr[k + 1], so that the index arithmetic of the source  *)
(* (i * GRID_SIZE + j) is kept as written.                                 *)
(*                                                                         *)
(* Every handler runs to completion on the JavaScript event loop and React *)
(* commits the render it schedules before the next input event, so one     *)
(* handler is one atomic action that reads the committed state.            *)
(*                                                                         *)
(* With it, the score ledger (contract Game2048) and the relay that        *)
(* listens to its events (src/backend/server.js): submitScore and          *)
(* getTopPlayers, and the handlers of NewHighScore and GamePlayed, each    *)
(* asynchronous handler one action per stretch between two awaits.         *)
(***************************************************************************)
EXTENDS Integers, Sequences, FiniteSets, TLC

GRID_SIZE == 4

CELL_COUNT == GRID_SIZE * GRID_SIZE

(* Bounds of the exploration: the calls of move explored in a game that    *)
(* starts from initializeGrid, the calls of newGame, the calls of move     *)
(* explored from the late position, and the moves played to reach it.      *)
MaxMoves == 1

MaxGames == 1

MaxLateMoves == 3

LateDepth == 12

(* Bounds of the inputs the pure functions are applied to: the largest     *)
(* tile of a line is 2^MaxExponent; a board differs from the checkerboard  *)
(* in at most MaxChanged cells, or holds at most MaxTiles tiles.           *)
MaxExponent == 3

MaxChanged == 2

MaxTiles == 2

(* The largest grid size initializeGrid is applied to. *)
MaxGridSize == 3

(* The calls of submitScore explored. *)
MaxSubmits == 3

(* The calls of submitScore explored while the relay runs. *)
MaxRelaySubmits == 2

(* What localStorage may hold under 'bestScore' when the page loads: 0     *)
(* stands for no entry (and for "0", which leaves bestScore at 0 too); any *)
(* other entry was written by move, so it is a score of an earlier         *)
(* session.                                                                *)
SavedBestScores == {0, 4}

Directions == {"up", "down", "left", "right"}

VARIABLES
    mounted,     \* whether the mount effect (useEffect at initializeGrid) ran
    grid,        \* useState([])
    score,       \* useState(0)
    bestScore,   \* useState(0)
    gameOver,    \* useState(false)
    storedBest,  \* localStorage 'bestScore'
    last,        \* the last operation and what it computed (history)
    movesLeft,   \* exploration budget: calls of move still explored
    gamesLeft,   \* exploration budget: calls of newGame still explored
    input,       \* the argument a pure function of the engine is applied to
    output       \* what it returned

VARIABLES
    allScores,   \* Game2048.allScores
    playerStats, \* Game2048.playerStats, the entries written so far
    players,     \* Game2048.players
    events,      \* the events Game2048 has emitted, in order
    submitsLeft  \* exploration budget: calls of submitScore still explored

ledgerVars == <<allScores, playerStats, players, events, submitsLeft>>

VARIABLES
    running,          \* the relay's process is up
    delivered,        \* how many of the contract's events reached the relay's listeners
    handlers,         \* the NewHighScore handlers between their await and their end
    leaderboardCache, \* let leaderboardCache = null
    cacheTimestamp,   \* let cacheTimestamp = 0
    now,              \* the clock Date.now() reads
    broadcasts,       \* the io.emit calls made, in order
    lastCacheUpdate,  \* let lastCacheUpdate = 0 (the relay of src/unnamed/part_001)
    calls,            \* the requests and timer callbacks started so far
    cacheReadAt       \* the length of allScores when the node read what the cache
                      \* holds (history); -1 before the cache is first assigned

relayVars == <<running, delivered, handlers, leaderboardCache, cacheTimestamp, now,
               broadcasts, lastCacheUpdate, calls, cacheReadAt>>

backendVars == <<ledgerVars, relayVars>>

VARIABLES
    account,          \* useState(null)
    signer,           \* useState(null)
    contract,         \* useState(null)
    playerName,       \* useState('')
    isSubmitting,     \* useState(false)
    showNameModal,    \* useState(false)
    pendingScore,     \* useState(0)
    isCorrectNetwork, \* useState(false)
    chain,            \* the chain the wallet (window.ethereum) is on
    inFlight,         \* the calls of the App's async functions that are at an await
    started,          \* how many such calls have begun
    transactions      \* the transactions the wallet has sent, in order (history)

walletVars == <<account, signer, contract, playerName, isSubmitting, showNameModal,
                pendingScore, isCorrectNetwork, chain, inFlight, started, transactions>>

vars == <<mounted, grid, score, bestScore, gameOver, storedBest, last,
          movesLeft, gamesLeft, input, output, backendVars, walletVars>>

--------------------------------------------------------------------------
(* JavaScript arrays *)

(* The value of an out-of-range read, arr[k] === undefined.  It equals     *)
(* itself and no cell value.                                               *)
Undefined == -1

At(arr, k) == IF k + 1 \in DOMAIN arr THEN arr[k + 1] ELSE Undefined

RECURSIVE Reverse(_)
Reverse(s) == IF s = << >> THEN << >> ELSE Reverse(Tail(s)) \o <<Head(s)>>

RECURSIVE Sum(_, _)
Sum(f, S) == IF S = {} THEN 0
             ELSE LET x == CHOOSE y \in S : TRUE IN f[x] + Sum(f, S \ {x})

--------------------------------------------------------------------------
(* addNewTile: every grid it can leave behind.  The empty cells are        *)
(* collected; when there is one, Math.random picks any of them and the     *)
(* value 2 (random < 0.9) or 4; a grid without an empty cell is left as it *)
(* is.                                                                     *)
emptyCells(currentGrid) ==
    {index \in 0..(Len(currentGrid) - 1) : At(currentGrid, index) = 0}

(* Variant of addNewTile: the random index is drawn among all cells, not   *)
(* among the empty ones.                                                   *)
addNewTileAnyCell(currentGrid) ==
    IF emptyCells(currentGrid) # {}
    THEN {[currentGrid EXCEPT ![randomIndex + 1] = v] :
              randomIndex \in 0..(Len(currentGrid) - 1), v \in {2, 4}}
    ELSE {currentGrid}

(* Variant of addNewTile: no tile is written. *)
addNewTileNoTile(currentGrid) == {currentGrid}

addNewTile(currentGrid) ==
    IF emptyCells(currentGrid) # {}
    THEN {[currentGrid EXCEPT ![randomIndex + 1] = v] :
              randomIndex \in emptyCells(currentGrid), v \in {2, 4}}
    ELSE {currentGrid}

(* Variants of initializeGrid: a single call of addNewTile; an array of    *)
(* GRID_SIZE cells.                                                        *)
initializeGridOneTile == addNewTile([index \in 1..CELL_COUNT |-> 0])

initializeGridShort ==
    UNION {addNewTile(g1) : g1 \in addNewTile([index \in 1..GRID_SIZE |-> 0])}

(* initializeGrid: Array(CELL_COUNT).fill(0), then addNewTile twice. *)
initializeGrid ==
    UNION {addNewTile(g1) : g1 \in addNewTile([index \in 1..CELL_COUNT |-> 0])}

--------------------------------------------------------------------------
(* moveRow: filter out the zeros, scan for equal neighbours, pad.          *)
(* Variant of filtered: the zeros are not dropped. *)
filteredKeepsZeros(row) == row

filtered(row) == SelectSeq(row, LAMBDA val : val # 0)

(* Variants of the loop: the merged tile is filtered[i] + 2; the loop does *)
(* not skip the second tile of a merged pair.                              *)
RECURSIVE mergeLoopAddsTwo(_, _)
mergeLoopAddsTwo(f, i) ==
    IF ~(i < Len(f)) THEN [merged |-> << >>, points |-> 0]
    ELSE IF i < Len(f) - 1 /\ f[i + 1] = f[i + 2]
         THEN LET rest == mergeLoopAddsTwo(f, i + 2)
              IN  [merged |-> <<f[i + 1] + 2>> \o rest.merged,
                   points |-> f[i + 1] + 2 + rest.points]
         ELSE LET rest == mergeLoopAddsTwo(f, i + 1)
              IN  [merged |-> <<f[i + 1]>> \o rest.merged,
                   points |-> rest.points]

RECURSIVE mergeLoopNoSkip(_, _)
mergeLoopNoSkip(f, i) ==
    IF ~(i < Len(f)) THEN [merged |-> << >>, points |-> 0]
    ELSE IF i < Len(f) - 1 /\ f[i + 1] = f[i + 2]
         THEN LET rest == mergeLoopNoSkip(f, i + 1)
              IN  [merged |-> <<f[i + 1] * 2>> \o rest.merged,
                   points |-> f[i + 1] * 2 + rest.points]
         ELSE LET rest == mergeLoopNoSkip(f, i + 1)
              IN  [merged |-> <<f[i + 1]>> \o rest.merged,
                   points |-> rest.points]

(* Variant of the loop: the merged tile is filtered[i], not doubled. *)
RECURSIVE mergeLoopNotDoubled(_, _)
mergeLoopNotDoubled(f, i) ==
    IF ~(i < Len(f)) THEN [merged |-> << >>, points |-> 0]
    ELSE IF i < Len(f) - 1 /\ f[i + 1] = f[i + 2]
         THEN LET rest == mergeLoopNotDoubled(f, i + 2)
              IN  [merged |-> <<f[i + 1]>> \o rest.merged,
                   points |-> f[i + 1] * 2 + rest.points]
         ELSE LET rest == mergeLoopNotDoubled(f, i + 1)
              IN  [merged |-> <<f[i + 1]>> \o rest.merged,
                   points |-> rest.points]

(* Variant of the loop: a merge adds nothing to points. *)
RECURSIVE mergeLoopNoPoints(_, _)
mergeLoopNoPoints(f, i) ==
    IF ~(i < Len(f)) THEN [merged |-> << >>, points |-> 0]
    ELSE IF i < Len(f) - 1 /\ f[i + 1] = f[i + 2]
         THEN LET rest == mergeLoopNoPoints(f, i + 2)
              IN  [merged |-> <<f[i + 1] * 2>> \o rest.merged,
                   points |-> rest.points]
         ELSE LET rest == mergeLoopNoPoints(f, i + 1)
              IN  [merged |-> <<f[i + 1]>> \o rest.merged,
                   points |-> rest.points]

(* The for loop of moveRow from index i (JavaScript's) on: what it pushes  *)
(* on merged and what it adds to points.                                   *)
RECURSIVE mergeLoop(_, _)
mergeLoop(f, i) ==
    IF ~(i < Len(f)) THEN [merged |-> << >>, points |-> 0]
    ELSE IF i < Len(f) - 1 /\ f[i + 1] = f[i + 2]
         THEN LET rest == mergeLoop(f, i + 2)
              IN  [merged |-> <<f[i + 1] * 2>> \o rest.merged,
                   points |-> f[i + 1] * 2 + rest.points]
         ELSE LET rest == mergeLoop(f, i + 1)
              IN  [merged |-> <<f[i + 1]>> \o rest.merged,
                   points |-> rest.points]

(* while (merged.length < GRID_SIZE) merged.push(0) *)
padded(merged) ==
    merged \o [k \in 1..(IF Len(merged) < GRID_SIZE THEN GRID_SIZE - Len(merged) ELSE 0) |-> 0]

moveRow(row) == padded(mergeLoop(filtered(row), 0).merged)

rowPoints(row) == mergeLoop(filtered(row), 0).points

(* Variant of movedLine: the moved line is not reversed back. *)
movedLineNotReversedBack(line, direction) ==
    IF direction \in {"left", "up"} THEN moveRow(line)
    ELSE moveRow(Reverse(line))

(* A line moved in a direction: left and up move toward the head of the    *)
(* line, right and down reverse it, move it and reverse it back.           *)
movedLine(line, direction) ==
    IF direction \in {"left", "up"} THEN moveRow(line)
    ELSE Reverse(moveRow(Reverse(line)))

linePoints(line, direction) ==
    IF direction \in {"left", "up"} THEN rowPoints(line)
    ELSE rowPoints(Reverse(line))

--------------------------------------------------------------------------
(* move, up to the spawn: the lines are rows for left and right, columns   *)
(* for up and down; line n, position k is the cell cellIndex.  Each line   *)
(* is read from and written to its own cells only.                         *)
(* Variant of cellIndex: a column is read with the index of a row. *)
cellIndexRowMajor(direction, n, k) == n * GRID_SIZE + k

cellIndex(direction, n, k) ==
    IF direction \in {"left", "right"} THEN n * GRID_SIZE + k ELSE k * GRID_SIZE + n

gridLine(g, direction, n) ==
    [k \in 1..GRID_SIZE |-> At(g, cellIndex(direction, n, k - 1))] \o << >>

(* The moved lines n, n + 1, ..., GRID_SIZE - 1 of the outer for loop. *)
RECURSIVE movedLines(_, _, _)
movedLines(g, direction, n) ==
    IF ~(n < GRID_SIZE) THEN << >>
    ELSE <<movedLine(gridLine(g, direction, n), direction)>>
             \o movedLines(g, direction, n + 1)

(* newGrid once every line is written back, from cell index on: cell      *)
(* cellIndex(direction, n, k) holds position k of moved line n.            *)
RECURSIVE writtenBack(_, _, _)
writtenBack(lines, direction, index) ==
    IF ~(index < CELL_COUNT) THEN << >>
    ELSE LET n == IF direction \in {"left", "right"} THEN index \div GRID_SIZE
                  ELSE index % GRID_SIZE
             k == IF direction \in {"left", "right"} THEN index % GRID_SIZE
                  ELSE index \div GRID_SIZE
         IN  <<lines[n + 1][k + 1]>> \o writtenBack(lines, direction, index + 1)

slideGrid(g, direction) == writtenBack(movedLines(g, direction, 0), direction, 0)

(* moved: writing a moved line back, some cell of newGrid (which still     *)
(* holds the line as it was) differed from it.                             *)
lineMoved(line, direction) ==
    \E k \in 1..GRID_SIZE : line[k] # movedLine(line, direction)[k]

(* Variant of moved: always set. *)
gridMovedAlways(g, direction) == TRUE

gridMoved(g, direction) ==
    \E n \in 0..(GRID_SIZE - 1) : lineMoved(gridLine(g, direction, n), direction)

(* Variant of points: only the merges of line 0 are counted. *)
gridPointsFirstLine(g, direction) == linePoints(gridLine(g, direction, 0), direction)

gridPoints(g, direction) ==
    Sum([n \in 0..(GRID_SIZE - 1) |-> linePoints(gridLine(g, direction, n), direction)],
        0..(GRID_SIZE - 1))

--------------------------------------------------------------------------
(* checkGameOver *)

(* Variants of checkGameOver: the right neighbour is read across the end   *)
(* of the row; the neighbour below is not compared.                        *)
checkGameOverAcrossRows(currentGrid) ==
    IF \E index \in 0..(Len(currentGrid) - 1) : At(currentGrid, index) = 0 THEN FALSE
    ELSE ~ \E i \in 0..(GRID_SIZE - 1), j \in 0..(GRID_SIZE - 1) :
             LET current == At(currentGrid, i * GRID_SIZE + j)
             IN  \/ current = At(currentGrid, i * GRID_SIZE + j + 1)
                 \/ i < GRID_SIZE - 1 /\ current = At(currentGrid, (i + 1) * GRID_SIZE + j)

checkGameOverRowsOnly(currentGrid) ==
    IF \E index \in 0..(Len(currentGrid) - 1) : At(currentGrid, index) = 0 THEN FALSE
    ELSE ~ \E i \in 0..(GRID_SIZE - 1), j \in 0..(GRID_SIZE - 1) :
             LET current == At(currentGrid, i * GRID_SIZE + j)
             IN  j < GRID_SIZE - 1 /\ current = At(currentGrid, i * GRID_SIZE + j + 1)

(* Variant of checkGameOver: the right neighbour is not compared. *)
checkGameOverColumnsOnly(currentGrid) ==
    IF \E index \in 0..(Len(currentGrid) - 1) : At(currentGrid, index) = 0 THEN FALSE
    ELSE ~ \E i \in 0..(GRID_SIZE - 1), j \in 0..(GRID_SIZE - 1) :
             LET current == At(currentGrid, i * GRID_SIZE + j)
             IN  i < GRID_SIZE - 1 /\ current = At(currentGrid, (i + 1) * GRID_SIZE + j)

checkGameOver(currentGrid) ==
    IF \E index \in 0..(Len(currentGrid) - 1) : At(currentGrid, index) = 0 THEN FALSE
    ELSE ~ \E i \in 0..(GRID_SIZE - 1), j \in 0..(GRID_SIZE - 1) :
             LET current == At(currentGrid, i * GRID_SIZE + j)
             IN  \/ j < GRID_SIZE - 1 /\ current = At(currentGrid, i * GRID_SIZE + j + 1)
                 \/ i < GRID_SIZE - 1 /\ current = At(currentGrid, (i + 1) * GRID_SIZE + j)

--------------------------------------------------------------------------
(* The App component *)

NoOp == [op |-> "none", dir |-> "none", moved |-> FALSE, points |-> 0]

NoOutput == [op |-> "none"]

(* The contract as deployed: no score, no player, no event. *)
ledgerIdle ==
    /\ allScores = << >>
    /\ playerStats = << >>
    /\ players = << >>
    /\ events = << >>
    /\ submitsLeft = 0

Null == "null"

(* The relay before any event: the module-level state of server.js. *)
relayIdle ==
    /\ running = TRUE
    /\ delivered = 0
    /\ handlers = {}
    /\ leaderboardCache = Null
    /\ cacheTimestamp = 0
    /\ now = 0
    /\ broadcasts = << >>
    /\ lastCacheUpdate = 0
    /\ calls = 0
    /\ cacheReadAt = -1

backendIdle == ledgerIdle /\ relayIdle

(* The App's wallet state as useState constructs it, no call begun, the    *)
(* wallet on the Fluent network.                                           *)
walletIdle ==
    /\ account = Null
    /\ signer = Null
    /\ contract = Null
    /\ playerName = ""
    /\ isSubmitting = FALSE
    /\ showNameModal = FALSE
    /\ pendingScore = 0
    /\ isCorrectNetwork = FALSE
    /\ chain = "fluent"
    /\ inFlight = {}
    /\ started = 0
    /\ transactions = << >>

Init ==
    /\ backendIdle
    /\ walletIdle
    /\ mounted = FALSE
    /\ grid = << >>
    /\ score = 0
    /\ bestScore = 0
    /\ gameOver = FALSE
    /\ storedBest \in SavedBestScores
    /\ last = NoOp
    /\ movesLeft = MaxMoves
    /\ gamesLeft = MaxGames
    /\ input = << >>
    /\ output = NoOutput

(* useEffect(() => { savedBest ...; setGrid(initializeGrid()) }) *)
Mount ==
    /\ ~mounted
    /\ mounted' = TRUE
    /\ bestScore' = IF storedBest # 0 THEN storedBest ELSE bestScore
    /\ grid' \in initializeGrid
    /\ last' = [NoOp EXCEPT !.op = "mount"]
    /\ UNCHANGED <<score, gameOver, storedBest, movesLeft, gamesLeft, input, output,
                   backendVars, walletVars>>

(* Variant of move: bestScore is set to the new score without comparing. *)
moveBestFollowsScore(direction) ==
    /\ mounted
    /\ movesLeft > 0
    /\ movesLeft' = movesLeft - 1
    /\ IF gameOver
       THEN /\ last' = [op |-> "move", dir |-> direction, moved |-> FALSE, points |-> 0]
            /\ UNCHANGED <<grid, score, bestScore, gameOver, storedBest>>
       ELSE \E newGrid \in {slideGrid(grid, direction)},
               points \in {gridPoints(grid, direction)} :
            \E moved \in {gridMoved(grid, direction)},
               newScore \in {score + points} :
                /\ last' = [op |-> "move", dir |-> direction, moved |-> moved,
                            points |-> points]
                /\ IF moved
                   THEN /\ grid' \in addNewTile(newGrid)
                        /\ score' = newScore
                        /\ bestScore' = newScore
                        /\ storedBest' = IF newScore > bestScore THEN newScore ELSE storedBest
                        /\ gameOver' = IF checkGameOver(grid') THEN TRUE ELSE gameOver
                   ELSE UNCHANGED <<grid, score, bestScore, gameOver, storedBest>>
    /\ UNCHANGED <<mounted, gamesLeft, input, output, backendVars, walletVars>>

(* move(direction), called by the keydown and touch handlers *)
move(direction) ==
    /\ mounted
    /\ movesLeft > 0
    /\ movesLeft' = movesLeft - 1
    /\ IF gameOver
       THEN /\ last' = [op |-> "move", dir |-> direction, moved |-> FALSE, points |-> 0]
            /\ UNCHANGED <<grid, score, bestScore, gameOver, storedBest>>
       ELSE \E newGrid \in {slideGrid(grid, direction)},
               points \in {gridPoints(grid, direction)} :
            \E moved \in {gridMoved(grid, direction)},
               newScore \in {score + points} :
                /\ last' = [op |-> "move", dir |-> direction, moved |-> moved,
                            points |-> points]
                /\ IF moved
                   THEN /\ grid' \in addNewTile(newGrid)
                        /\ score' = newScore
                        /\ bestScore' = IF newScore > bestScore THEN newScore ELSE bestScore
                        /\ storedBest' = IF newScore > bestScore THEN newScore ELSE storedBest
                        /\ gameOver' = IF checkGameOver(grid') THEN TRUE ELSE gameOver
                   ELSE UNCHANGED <<grid, score, bestScore, gameOver, storedBest>>
    /\ UNCHANGED <<mounted, gamesLeft, input, output, backendVars, walletVars>>

(* Variant of newGame: gameOver is not reset. *)
newGameKeepsGameOver ==
    /\ mounted
    /\ gamesLeft > 0
    /\ gamesLeft' = gamesLeft - 1
    /\ grid' \in initializeGrid
    /\ score' = 0
    /\ last' = [NoOp EXCEPT !.op = "newGame"]
    /\ movesLeft' = IF movesLeft > MaxMoves THEN MaxMoves ELSE movesLeft
    /\ UNCHANGED <<mounted, bestScore, storedBest, gameOver, input, output, backendVars,
                   walletVars>>

newGame ==
    /\ mounted
    /\ gamesLeft > 0
    /\ gamesLeft' = gamesLeft - 1
    /\ grid' \in initializeGrid
    /\ score' = 0
    /\ gameOver' = FALSE
    /\ last' = [NoOp EXCEPT !.op = "newGame"]
    /\ movesLeft' = IF movesLeft > MaxMoves THEN MaxMoves ELSE movesLeft
    /\ UNCHANGED <<mounted, bestScore, storedBest, input, output, backendVars,
                   walletVars>>

Next ==
    \/ Mount
    \/ \E direction \in Directions : move(direction)
    \/ newGame

Spec == Init /\ [][Next]_vars

--------------------------------------------------------------------------
(* A late position of a game.  No search from initializeGrid reaches a     *)
(* full grid within the bounds (a grid gains one tile per move), so the    *)
(* late game is explored from a position that a recorded play reaches:     *)
(* LateStart is a grid of initializeGrid and every step of LatePlay is a   *)
(* call of move (direction, the cell addNewTile picked, the value it       *)
(* wrote) that replay checks against slideGrid and addNewTile.             *)
LateStart == <<2, 4, 0, 0,  0, 0, 0, 0,  0, 0, 0, 0,  0, 0, 0, 0>>

LatePlay ==
    << <<"down", 4, 2>>,  <<"right", 12, 2>>, <<"down", 13, 4>>, <<"left", 0, 2>>,
       <<"right", 4, 2>>, <<"right", 2, 4>>,  <<"left", 5, 4>>,  <<"right", 5, 4>>,
       <<"left", 3, 4>>,  <<"right", 10, 4>>, <<"left", 3, 2>>,  <<"right", 4, 2>>,
       <<"left", 11, 4>>, <<"left", 11, 2>> >>

played(st, step) ==
    LET newGrid == slideGrid(st.grid, step[1])
        spawned == [newGrid EXCEPT ![step[2] + 1] = step[3]]
    IN  [grid |-> spawned,
         score |-> st.score + gridPoints(st.grid, step[1]),
         ok |-> /\ st.ok
                /\ ~checkGameOver(st.grid)
                /\ gridMoved(st.grid, step[1])
                /\ spawned \in addNewTile(newGrid)]

RECURSIVE replay(_)
replay(n) ==
    IF n = 0 THEN [grid |-> LateStart, score |-> 0, ok |-> LateStart \in initializeGrid]
    ELSE CHOOSE st \in {played(before, LatePlay[n]) : before \in {replay(n - 1)}} : TRUE

LatePosition == replay(LateDepth)

(* The state of the App at the late position, in a session that found no   *)
(* bestScore in localStorage: bestScore has followed score.                *)
InitLate ==
    /\ LatePosition.ok
    /\ backendIdle
    /\ walletIdle
    /\ mounted = TRUE
    /\ grid = LatePosition.grid
    /\ score = LatePosition.score
    /\ bestScore = LatePosition.score
    /\ storedBest = LatePosition.score
    /\ gameOver = checkGameOver(LatePosition.grid)
    /\ last = NoOp
    /\ movesLeft = MaxLateMoves
    /\ gamesLeft = MaxGames
    /\ input = << >>
    /\ output = NoOutput

(* The late game explores newGame from the states in which the game is     *)
(* over: from any other state newGame leads where it leads in Spec, up to  *)
(* bestScore.                                                              *)
NextLate ==
    \/ \E direction \in Directions : move(direction)
    \/ gameOver /\ newGame

SpecLate == InitLate /\ [][NextLate]_vars

--------------------------------------------------------------------------
(* The pure functions of the engine, applied to inputs drawn from bounded  *)
(* sets: the game state is left as constructed.                            *)
gameIdle ==
    /\ walletIdle
    /\ mounted = FALSE
    /\ grid = << >>
    /\ score = 0
    /\ bestScore = 0
    /\ gameOver = FALSE
    /\ storedBest = 0
    /\ last = NoOp
    /\ movesLeft = 0
    /\ gamesLeft = 0

gameVars == <<mounted, grid, score, bestScore, gameOver, storedBest, last,
              movesLeft, gamesLeft, walletVars>>

RECURSIVE pow2(_)
pow2(e) == IF e = 0 THEN 1 ELSE 2 * pow2(e - 1)

LineValues == {0} \cup {pow2(e) : e \in 1..MaxExponent}

Lines == [1..GRID_SIZE -> LineValues]

InitLine ==
    /\ gameIdle
    /\ backendIdle
    /\ input \in Lines
    /\ output = NoOutput

(* One line of move(direction): movedRow or movedColumn, what moveRow      *)
(* added to points, and whether writing the line back set moved.           *)
applyMoveLine(direction) ==
    /\ output = NoOutput
    /\ output' = [op |-> "moveLine", dir |-> direction,
                  line |-> movedLine(input, direction),
                  points |-> linePoints(input, direction),
                  moved |-> lineMoved(input, direction)]
    /\ UNCHANGED <<gameVars, input, backendVars>>

NextLine == \E direction \in Directions : applyMoveLine(direction)

SpecLine == InitLine /\ [][NextLine]_vars

(* initializeGrid under a grid size other than the one the source fixes:   *)
(* Array(gridSize * gridSize).fill(0), then addNewTile twice, each call    *)
(* leaving a grid without an empty cell as it is.  Nothing on this path    *)
(* throws or returns an error, so threw is false in every outcome.         *)
initializeGridOfSize(gridSize) ==
    {[threw |-> FALSE, grid |-> g2] :
        g2 \in UNION {addNewTile(g1) :
                        g1 \in addNewTile([index \in 1..(gridSize * gridSize) |-> 0])}}

GridSizes == 0..MaxGridSize

InitSize ==
    /\ gameIdle
    /\ backendIdle
    /\ input \in GridSizes
    /\ output = NoOutput

applyInitializeGrid ==
    /\ output = NoOutput
    /\ \E outcome \in initializeGridOfSize(input) :
           output' = [op |-> "initializeGrid", threw |-> outcome.threw,
                      grid |-> outcome.grid]
    /\ UNCHANGED <<gameVars, input, backendVars>>

NextSize == applyInitializeGrid

SpecSize == InitSize /\ [][NextSize]_vars

(* Boards: the checkerboard (a full grid without equal neighbours) with at *)
(* most MaxChanged cells replaced by 0, 2, 4 or 8, and the grids of at     *)
(* most MaxTiles tiles 2, 4 or 8.                                          *)
Checkerboard ==
    [index \in 1..CELL_COUNT |->
        IF (((index - 1) \div GRID_SIZE) + ((index - 1) % GRID_SIZE)) % 2 = 0 THEN 2 ELSE 4]

Overwritten(board, cells) ==
    {[index \in 1..CELL_COUNT |-> IF index \in cells THEN w[index] ELSE board[index]] :
        w \in [cells -> {0, 2, 4, 8}]}

CellSets(most) == {cells \in SUBSET (1..CELL_COUNT) : Cardinality(cells) <= most}

Boards ==
    UNION {Overwritten(Checkerboard, cells) : cells \in CellSets(MaxChanged)}
    \cup UNION {Overwritten([index \in 1..CELL_COUNT |-> 0], cells) : cells \in CellSets(MaxTiles)}

InitBoard ==
    /\ gameIdle
    /\ backendIdle
    /\ input \in Boards
    /\ output = NoOutput

applyCheckGameOver ==
    /\ output = NoOutput
    /\ output' = [op |-> "checkGameOver", result |-> checkGameOver(input)]
    /\ UNCHANGED <<gameVars, input, backendVars>>

(* move(direction) up to the spawn *)
applySlide(direction) ==
    /\ output = NoOutput
    /\ output' = [op |-> "slide", dir |-> direction,
                  grid |-> slideGrid(input, direction),
                  points |-> gridPoints(input, direction),
                  moved |-> gridMoved(input, direction)]
    /\ UNCHANGED <<gameVars, input, backendVars>>

NextBoard ==
    \/ applyCheckGameOver
    \/ \E direction \in Directions : applySlide(direction)

SpecBoard == InitBoard /\ [][NextBoard]_vars

--------------------------------------------------------------------------
(* The end of a game.  A game played from initializeGrid runs for far more *)
(* moves than a search covers, so the play to gameOver is explored from    *)
(* the boards of its last stage: the chain 2^17, 2^16, ... laid along the  *)
(* rows in alternating direction, which is the arrangement the longest     *)
(* games build, with its last EndFree cells empty or holding a 2 or a 4.   *)
(* The tiles of the chain are pairwise distinct and larger than any tile   *)
(* EndFree cells can build, so none of them merges.                        *)
EndFree == 3

chainCell(index) ==
    LET i == index \div GRID_SIZE
        j == index % GRID_SIZE
    IN  IF i % 2 = 0 THEN i * GRID_SIZE + j ELSE i * GRID_SIZE + (GRID_SIZE - 1 - j)

Chain == [index \in 1..CELL_COUNT |-> pow2(CELL_COUNT + 1 - chainCell(index - 1))]

chainCells == {index \in 1..CELL_COUNT : chainCell(index - 1) < CELL_COUNT - EndFree}

EndBoards ==
    {[index \in 1..CELL_COUNT |-> IF index \in chainCells THEN Chain[index] ELSE w[index]] :
        w \in [(1..CELL_COUNT) \ chainCells -> {0, 2, 4}]}

(* The tiles the free cells hold sum to less than 2^(EndFree + 2) and      *)
(* every move that changes the grid adds a 2 or a 4, so a game from these  *)
(* boards has fewer than 2^(EndFree + 1) such moves.                       *)
EndMoves == pow2(EndFree + 1)

(* What the merges that build a tile from 2s add to the score. *)
RECURSIVE builtScore(_)
builtScore(v) == IF v <= 2 THEN 0 ELSE v + 2 * builtScore(v \div 2)

chainScore == Sum([index \in chainCells |-> builtScore(Chain[index])], chainCells)

InitEnd ==
    /\ backendIdle
    /\ walletIdle
    /\ mounted = TRUE
    /\ grid \in EndBoards
    /\ score = chainScore
    /\ bestScore = chainScore
    /\ storedBest = chainScore
    /\ gameOver = checkGameOver(grid)
    /\ last = NoOp
    /\ movesLeft = EndMoves
    /\ gamesLeft = 0
    /\ input = << >>
    /\ output = NoOutput

(* A call of move that changes the grid: the player of the end game makes  *)
(* no other. *)
changingMove(direction) ==
    /\ ~gameOver
    /\ gridMoved(grid, direction)
    /\ move(direction)

NextEnd == \E direction \in Directions : changingMove(direction)

(* Some call of move can change the grid: ENABLED <<NextEnd>>_vars, by the *)
(* guards of move.                                                         *)
canPlay ==
    /\ mounted
    /\ movesLeft > 0
    /\ ~gameOver
    /\ \E direction \in Directions : gridMoved(grid, direction)

(* The player keeps playing: while some move changes the grid, one is      *)
(* made.  This is weak fairness of NextEnd, WF_vars(NextEnd), with its     *)
(* enabling condition written as the state predicate canPlay.              *)
SpecEnd == InitEnd /\ [][NextEnd]_vars /\ ([]<>~canPlay \/ []<><<NextEnd>>_vars)

--------------------------------------------------------------------------
(* The score ledger: contract Game2048 (src/backend/server.js, from line   *)
(* 131).  An address is a positive number, address(0) is 0; a mapping      *)
(* holds the entries written so far and reads as the zero entry elsewhere. *)
(* The scores and sums explored stay far below 2^256, where the checked    *)
(* arithmetic of Solidity 0.8 would revert.  block.timestamp is carried    *)
(* into the log and the events and read by no branch: it is left out.      *)
MAX_LEADERBOARD_SIZE == 100

ZeroEntry ==
    [player |-> 0, playerName |-> "", highScore |-> 0, gamesPlayed |-> 0, totalScore |-> 0]

statsOf(stats, address) ==
    IF address \in DOMAIN stats THEN stats[address] ELSE ZeroEntry

written(stats, address, entry) ==
    [a \in DOMAIN stats \cup {address} |-> IF a = address THEN entry ELSE stats[a]]

EmptyLedger ==
    [allScores |-> << >>, playerStats |-> << >>, players |-> << >>, events |-> << >>]

(* Variant of submitted: the sender is pushed on players by every call,    *)
(* not only by its first.                                                  *)
submittedListedAgain(ledger, sender, _score, _playerName) ==
    LET entry == statsOf(ledger.playerStats, sender)
        first == entry.gamesPlayed = 0
        named == IF first THEN [entry EXCEPT !.player = sender, !.playerName = _playerName]
                 ELSE entry
        counted == [named EXCEPT !.gamesPlayed = @ + 1, !.totalScore = @ + _score]
        high == _score > counted.highScore
        stored == IF high THEN [counted EXCEPT !.highScore = _score, !.playerName = _playerName]
                  ELSE counted
    IN  [allScores |-> Append(ledger.allScores,
                              [player |-> sender, score |-> _score, playerName |-> _playerName]),
         playerStats |-> written(ledger.playerStats, sender, stored),
         players |-> Append(ledger.players, sender),
         events |-> ledger.events
                     \o (IF high THEN <<[name |-> "NewHighScore", player |-> sender,
                                          playerName |-> _playerName, score |-> _score]>>
                         ELSE << >>)
                     \o <<[name |-> "GamePlayed", player |-> sender, score |-> _score]>>]

(* Variant of submitted: a score equal to highScore counts as a new high   *)
(* score.                                                                  *)
submittedOnEqualScore(ledger, sender, _score, _playerName) ==
    LET entry == statsOf(ledger.playerStats, sender)
        first == entry.gamesPlayed = 0
        named == IF first THEN [entry EXCEPT !.player = sender, !.playerName = _playerName]
                 ELSE entry
        counted == [named EXCEPT !.gamesPlayed = @ + 1, !.totalScore = @ + _score]
        high == _score >= counted.highScore
        stored == IF high THEN [counted EXCEPT !.highScore = _score, !.playerName = _playerName]
                  ELSE counted
    IN  [allScores |-> Append(ledger.allScores,
                              [player |-> sender, score |-> _score, playerName |-> _playerName]),
         playerStats |-> written(ledger.playerStats, sender, stored),
         players |-> IF first THEN Append(ledger.players, sender) ELSE ledger.players,
         events |-> ledger.events
                     \o (IF high THEN <<[name |-> "NewHighScore", player |-> sender,
                                          playerName |-> _playerName, score |-> _score]>>
                         ELSE << >>)
                     \o <<[name |-> "GamePlayed", player |-> sender, score |-> _score]>>]

(* The ledger after submitScore(_score, _playerName) sent by sender passed *)
(* its two require statements.                                             *)
submitted(ledger, sender, _score, _playerName) ==
    LET entry == statsOf(ledger.playerStats, sender)
        first == entry.gamesPlayed = 0
        named == IF first THEN [entry EXCEPT !.player = sender, !.playerName = _playerName]
                 ELSE entry
        counted == [named EXCEPT !.gamesPlayed = @ + 1, !.totalScore = @ + _score]
        high == _score > counted.highScore
        stored == IF high THEN [counted EXCEPT !.highScore = _score, !.playerName = _playerName]
                  ELSE counted
    IN  [allScores |-> Append(ledger.allScores,
                              [player |-> sender, score |-> _score, playerName |-> _playerName]),
         playerStats |-> written(ledger.playerStats, sender, stored),
         players |-> IF first THEN Append(ledger.players, sender) ELSE ledger.players,
         events |-> ledger.events
                     \o (IF high THEN <<[name |-> "NewHighScore", player |-> sender,
                                          playerName |-> _playerName, score |-> _score]>>
                         ELSE << >>)
                     \o <<[name |-> "GamePlayed", player |-> sender, score |-> _score]>>]

(* Variant of the exchange: the entries are compared with > . *)
exchangedAscending(entries, i, j) ==
    IF entries[i + 1].highScore > entries[j + 1].highScore
    THEN [entries EXCEPT ![i + 1] = entries[j + 1], ![j + 1] = entries[i + 1]]
    ELSE entries

(* The body of the inner loop of the sort: allEntries[i] and allEntries[j] *)
(* change places when the first has the lower highScore.                   *)
exchanged(entries, i, j) ==
    IF entries[i + 1].highScore < entries[j + 1].highScore
    THEN [entries EXCEPT ![i + 1] = entries[j + 1], ![j + 1] = entries[i + 1]]
    ELSE entries

(* for (j = ...; j < allEntries.length; j++), from j on *)
RECURSIVE innerLoop(_, _, _)
innerLoop(entries, i, j) ==
    IF ~(j < Len(entries)) THEN entries
    ELSE innerLoop(exchanged(entries, i, j), i, j + 1)

(* for (i = ...; i < allEntries.length; i++), from i on *)
RECURSIVE outerLoop(_, _)
outerLoop(entries, i) ==
    IF ~(i < Len(entries)) THEN entries
    ELSE outerLoop(innerLoop(entries, i, i + 1), i + 1)

(* Variant of getTopPlayers: count is not capped by MAX_LEADERBOARD_SIZE. *)
topPlayersUncapped(ledger, _count) ==
    LET count == IF _count > Len(ledger.players) THEN Len(ledger.players) ELSE _count
        allEntries == [i \in 1..Len(ledger.players) |->
                          statsOf(ledger.playerStats, ledger.players[i])]
    IN  SubSeq(outerLoop(allEntries, 0), 1, count)

(* getTopPlayers(_count) *)
getTopPlayers(ledger, _count) ==
    LET count1 == IF _count > Len(ledger.players) THEN Len(ledger.players) ELSE _count
        count == IF count1 > MAX_LEADERBOARD_SIZE THEN MAX_LEADERBOARD_SIZE ELSE count1
        allEntries == [i \in 1..Len(ledger.players) |->
                          statsOf(ledger.playerStats, ledger.players[i])]
    IN  SubSeq(outerLoop(allEntries, 0), 1, count)

(* getTotalGamesPlayed() *)
getTotalGamesPlayed(ledger) == Len(ledger.allScores)

(* The contract's storage and log, as one value. *)
ledger ==
    [allScores |-> allScores, playerStats |-> playerStats, players |-> players,
     events |-> events]

(* The callers, and the arguments of the calls explored: score 0 and the   *)
(* empty name are the ones submitScore rejects; the counts reach beyond    *)
(* the number of players and beyond MAX_LEADERBOARD_SIZE.                  *)
Senders == {1, 2, 3}

SubmittedScores == {0, 1, 2, 3}

PlayerNames == {"", "ann", "bob"}

Counts == {0, 1, 2, 3, 4, MAX_LEADERBOARD_SIZE, MAX_LEADERBOARD_SIZE + 1}

(* A ledger with more players than MAX_LEADERBOARD_SIZE: the one left by   *)
(* one submitScore(crowdScore(a), "p") from each of the addresses          *)
(* a = 1, 2, ..., MAX_LEADERBOARD_SIZE + 1, in that order.                 *)
crowdScore(a) == 1 + ((a * 7) % 5)

CrowdedLedger ==
    [allScores |-> [i \in 1..(MAX_LEADERBOARD_SIZE + 1) |->
                       [player |-> i, score |-> crowdScore(i), playerName |-> "p"]],
     playerStats |-> [a \in 1..(MAX_LEADERBOARD_SIZE + 1) |->
                         [player |-> a, playerName |-> "p", highScore |-> crowdScore(a),
                          gamesPlayed |-> 1, totalScore |-> crowdScore(a)]],
     players |-> [i \in 1..(MAX_LEADERBOARD_SIZE + 1) |-> i],
     events |-> [k \in 1..(2 * (MAX_LEADERBOARD_SIZE + 1)) |->
                    IF k % 2 = 1
                    THEN [name |-> "NewHighScore", player |-> (k + 1) \div 2,
                          playerName |-> "p", score |-> crowdScore((k + 1) \div 2)]
                    ELSE [name |-> "GamePlayed", player |-> k \div 2,
                          score |-> crowdScore(k \div 2)]]]

InitLedger ==
    /\ gameIdle
    /\ relayIdle
    /\ input = << >>
    /\ output = NoOutput
    /\ \E start \in {EmptyLedger, CrowdedLedger} :
           /\ allScores = start.allScores
           /\ playerStats = start.playerStats
           /\ players = start.players
           /\ events = start.events
           /\ submitsLeft = IF start = EmptyLedger THEN MaxSubmits ELSE 0

(* Variant of submitScore: the name is not required. *)
submitScoreAnyName(sender, _score, _playerName) ==
    /\ submitsLeft > 0
    /\ submitsLeft' = submitsLeft - 1
    /\ IF _score > 0
       THEN \E after \in {submitted(ledger, sender, _score, _playerName)} :
                /\ allScores' = after.allScores
                /\ playerStats' = after.playerStats
                /\ players' = after.players
                /\ events' = after.events
                /\ output' = [op |-> "submitScore", sender |-> sender, score |-> _score,
                              playerName |-> _playerName, reverted |-> FALSE]
       ELSE /\ UNCHANGED <<allScores, playerStats, players, events>>
            /\ output' = [op |-> "submitScore", sender |-> sender, score |-> _score,
                          playerName |-> _playerName, reverted |-> TRUE]
    /\ UNCHANGED <<gameVars, input, relayVars>>

(* submitScore(_score, _playerName) sent by sender: a call that fails a    *)
(* require reverts and leaves the storage and the log as they were.  The   *)
(* call and its outcome are kept in output.                                *)
submitScore(sender, _score, _playerName) ==
    /\ submitsLeft > 0
    /\ submitsLeft' = submitsLeft - 1
    /\ IF _score > 0 /\ _playerName # ""
       THEN \E after \in {submitted(ledger, sender, _score, _playerName)} :
                /\ allScores' = after.allScores
                /\ playerStats' = after.playerStats
                /\ players' = after.players
                /\ events' = after.events
                /\ output' = [op |-> "submitScore", sender |-> sender, score |-> _score,
                              playerName |-> _playerName, reverted |-> FALSE]
       ELSE /\ UNCHANGED <<allScores, playerStats, players, events>>
            /\ output' = [op |-> "submitScore", sender |-> sender, score |-> _score,
                          playerName |-> _playerName, reverted |-> TRUE]
    /\ UNCHANGED <<gameVars, input, relayVars>>

(* A call of the view getTopPlayers(_count) *)
callGetTopPlayers(_count) ==
    /\ output' = [op |-> "getTopPlayers", count |-> _count,
                  result |-> getTopPlayers(ledger, _count)]
    /\ UNCHANGED <<gameVars, input, backendVars>>

NextLedger ==
    \/ \E sender \in Senders, _score \in SubmittedScores, _playerName \in PlayerNames :
           submitScore(sender, _score, _playerName)
    \/ \E _count \in Counts : callGetTopPlayers(_count)

SpecLedger == InitLedger /\ [][NextLedger]_vars

--------------------------------------------------------------------------
(* The relay: server.js (src/backend/server.js, lines 1 to 129) listening  *)
(* to the contract's events.  ethers delivers the events in the order of   *)
(* the log.  A NewHighScore handler runs up to its await, and resumes once *)
(* the node has answered getTopPlayers(20), unless the call fails; a       *)
(* handler that throws ends as an unhandled rejection, after which the     *)
(* process goes on or exits, as node is configured.  The timestamps of the *)
(* events are passed on and read by no branch: they are left out.          *)
RELAY_TOP_COUNT == 20

(* topPlayers.map(player => ({...})).  The numbers ethers decodes from a   *)
(* uint256 are BigInts: for an entry with gamesPlayed > 0 the quotient     *)
(* player.totalScore / player.gamesPlayed is a BigInt, which has no        *)
(* toFixed, and the call throws a TypeError.                               *)
leaderboardMapped(topPlayers) ==
    [threw |-> \E i \in 1..Len(topPlayers) : topPlayers[i].gamesPlayed > 0,
     list |-> [i \in 1..Len(topPlayers) |->
                  [address |-> topPlayers[i].player,
                   name |-> topPlayers[i].playerName,
                   highScore |-> ToString(topPlayers[i].highScore),
                   gamesPlayed |-> ToString(topPlayers[i].gamesPlayed),
                   avgScore |-> "0"]]]

InitRelay ==
    /\ gameIdle
    /\ input = << >>
    /\ output = NoOutput
    /\ relayIdle
    /\ allScores = << >>
    /\ playerStats = << >>
    /\ players = << >>
    /\ events = << >>
    /\ submitsLeft = MaxRelaySubmits

(* The next event of the log reaches its listener: contract.on(            *)
(* 'NewHighScore') runs up to await contract.getTopPlayers(20);            *)
(* contract.on('GamePlayed') emits newGame.                                *)
eventArrives ==
    /\ running
    /\ delivered < Len(events)
    /\ delivered' = delivered + 1
    /\ now' = now + 1
    /\ \E event \in {events[delivered + 1]} :
           IF event.name = "NewHighScore"
           THEN /\ handlers' = handlers \cup {[event |-> delivered + 1, stage |-> "reading",
                                               topPlayers |-> << >>, readAt |-> 0]}
                /\ UNCHANGED broadcasts
           ELSE /\ broadcasts' = Append(broadcasts,
                                        [name |-> "newGame", player |-> event.player,
                                         score |-> ToString(event.score)])
                /\ UNCHANGED handlers
    /\ UNCHANGED <<running, leaderboardCache, cacheTimestamp, lastCacheUpdate, calls,
                   cacheReadAt>>
    /\ UNCHANGED <<gameVars, input, output, ledgerVars>>

(* A handler ends by throwing: nothing catches the rejection. *)
rejected(handler) ==
    /\ handlers' = handlers \ {handler}
    /\ running' \in BOOLEAN
    /\ now' = now + 1
    /\ UNCHANGED <<delivered, leaderboardCache, cacheTimestamp, broadcasts,
                   lastCacheUpdate, calls, cacheReadAt>>

(* The call of getTopPlayers fails (the node is unreachable or answers     *)
(* with an error). *)
readFails(handler) ==
    /\ running
    /\ handler.stage = "reading"
    /\ rejected(handler)
    /\ UNCHANGED <<gameVars, input, output, ledgerVars>>

(* The node answers getTopPlayers(20) from the storage it holds then. *)
readReturns(handler) ==
    /\ running
    /\ handler.stage = "reading"
    /\ handlers' = (handlers \ {handler})
                      \cup {[handler EXCEPT !.stage = "resolved",
                                            !.topPlayers = getTopPlayers(ledger, RELAY_TOP_COUNT),
                                            !.readAt = Len(allScores)]}
    /\ now' = now + 1
    /\ UNCHANGED <<running, delivered, leaderboardCache, cacheTimestamp, broadcasts,
                   lastCacheUpdate, calls, cacheReadAt>>
    /\ UNCHANGED <<gameVars, input, output, ledgerVars>>

(* The handler resumes after its await: the cache is assigned, then        *)
(* newHighScore and leaderboardUpdate are emitted.                         *)
handlerResumes(handler) ==
    /\ running
    /\ handler.stage = "resolved"
    /\ \E mapped \in {leaderboardMapped(handler.topPlayers)} :
           IF mapped.threw
           THEN rejected(handler)
           ELSE /\ leaderboardCache' = mapped.list
                /\ cacheTimestamp' = now
                /\ cacheReadAt' = handler.readAt
                /\ now' = now + 1
                /\ broadcasts' =
                       broadcasts
                       \o <<[name |-> "newHighScore", event |-> handler.event,
                             player |-> events[handler.event].player,
                             playerName |-> events[handler.event].playerName,
                             score |-> ToString(events[handler.event].score)],
                            [name |-> "leaderboardUpdate", event |-> handler.event,
                             leaderboard |-> mapped.list, readAt |-> handler.readAt]>>
                /\ handlers' = handlers \ {handler}
                /\ UNCHANGED <<running, delivered, lastCacheUpdate, calls>>
    /\ UNCHANGED <<gameVars, input, output, ledgerVars>>

NextRelay ==
    \/ \E sender \in Senders, _score \in SubmittedScores, _playerName \in PlayerNames :
           submitScore(sender, _score, _playerName)
    \/ eventArrives
    \/ \E handler \in handlers : readFails(handler)
    \/ \E handler \in handlers : readReturns(handler)
    \/ \E handler \in handlers : handlerResumes(handler)

SpecRelay == InitRelay /\ [][NextRelay]_vars

--------------------------------------------------------------------------
(* The relay of src/unnamed/part_001: a second server.js for the same      *)
(* contract.  fetchLeaderboard runs up to its await and resumes once the   *)
(* node has answered getTopPlayers(10) or the call has failed; it is       *)
(* called when the module loads, by GET /api/leaderboard when the cache is *)
(* empty or older than CACHE_DURATION, and by the timer.  Its caller       *)
(* awaits it and goes on in the same turn of the event loop, so the        *)
(* resumption and what the caller does with the result are one step.  The  *)
(* listener of ScoreSubmitted never runs: Game2048 emits NewHighScore and  *)
(* GamePlayed only.  The numbers explored stay far below 2^53, where       *)
(* Number() would round.                                                   *)
CACHE_DURATION == 30000

FETCH_TOP_COUNT == 10

(* The calls of fetchLeaderboard and of GET /api/leaderboard explored, the *)
(* one made when the module loads included.                                *)
MaxCalls == 2

(* The calls of submitScore explored while this relay runs. *)
MaxFetchSubmits == 1

(* .sort((a, b) => b.highScore - a.highScore): a stable sort, highest      *)
(* first.                                                                  *)
RECURSIVE sortedByHighScore(_)
sortedByHighScore(list) ==
    IF list = << >> THEN << >>
    ELSE LET rest == sortedByHighScore(Tail(list))
             ahead == Cardinality({k \in 1..Len(rest) :
                                      rest[k].highScore > Head(list).highScore})
         IN  SubSeq(rest, 1, ahead) \o <<Head(list)>> \o SubSeq(rest, ahead + 1, Len(rest))

(* topPlayers.map(player => ({...})).sort(...) *)
leaderboardFetched(topPlayers) ==
    sortedByHighScore(
        [i \in 1..Len(topPlayers) |->
            [address |-> topPlayers[i].player,
             name |-> IF topPlayers[i].playerName # "" THEN topPlayers[i].playerName
                      ELSE "Anonymous",
             highScore |-> topPlayers[i].highScore,
             gamesPlayed |-> topPlayers[i].gamesPlayed,
             totalScore |-> topPlayers[i].totalScore]])

(* A call of fetchLeaderboard at its await. *)
fetchCall(caller) ==
    [call |-> calls, caller |-> caller, stage |-> "reading", topPlayers |-> << >>,
     readAt |-> 0]

(* The module has loaded: the page's clock is past CACHE_DURATION, and the *)
(* initial fetchLeaderboard() is at its await.                             *)
InitFetch ==
    /\ gameIdle
    /\ input = << >>
    /\ output = NoOutput
    /\ allScores = << >>
    /\ playerStats = << >>
    /\ players = << >>
    /\ events = << >>
    /\ submitsLeft = MaxFetchSubmits
    /\ running = TRUE
    /\ delivered = 0
    /\ handlers = {[call |-> 0, caller |-> "initial", stage |-> "reading",
                    topPlayers |-> << >>, readAt |-> 0]}
    /\ leaderboardCache = << >>
    /\ cacheTimestamp = 0
    /\ lastCacheUpdate = 0
    /\ now = CACHE_DURATION + 1
    /\ broadcasts = << >>
    /\ calls = 1
    /\ cacheReadAt = -1

(* Time passes, long enough for a cache to expire. *)
timePasses ==
    /\ now - lastCacheUpdate <= CACHE_DURATION
    /\ lastCacheUpdate # 0
    /\ now' = now + CACHE_DURATION + 1
    /\ UNCHANGED <<running, delivered, handlers, leaderboardCache, cacheTimestamp,
                   broadcasts, lastCacheUpdate, calls, cacheReadAt>>
    /\ UNCHANGED <<gameVars, input, output, ledgerVars>>

(* app.get('/api/leaderboard'): answered from the cache, or after          *)
(* fetchLeaderboard.                                                       *)
getLeaderboard ==
    /\ calls < MaxCalls
    /\ calls' = calls + 1
    /\ IF now - lastCacheUpdate > CACHE_DURATION \/ Len(leaderboardCache) = 0
       THEN /\ handlers' = handlers \cup {fetchCall("request")}
            /\ UNCHANGED output
       ELSE /\ output' = [op |-> "GET /api/leaderboard", call |-> calls, fetched |-> FALSE,
                          failed |-> FALSE, status |-> 200, body |-> leaderboardCache]
            /\ UNCHANGED handlers
    /\ UNCHANGED <<running, delivered, leaderboardCache, cacheTimestamp, now, broadcasts,
                   lastCacheUpdate, cacheReadAt>>
    /\ UNCHANGED <<gameVars, input, ledgerVars>>

(* The callback of setInterval calls fetchLeaderboard. *)
intervalFires ==
    /\ calls < MaxCalls
    /\ calls' = calls + 1
    /\ handlers' = handlers \cup {fetchCall("interval")}
    /\ UNCHANGED <<running, delivered, leaderboardCache, cacheTimestamp, now, broadcasts,
                   lastCacheUpdate, cacheReadAt>>
    /\ UNCHANGED <<gameVars, input, output, ledgerVars>>

(* The node answers getTopPlayers(10) from the storage it holds then. *)
callReturns(call) ==
    /\ call.stage = "reading"
    /\ handlers' = (handlers \ {call})
                      \cup {[call EXCEPT !.stage = "resolved",
                                         !.topPlayers = getTopPlayers(ledger, FETCH_TOP_COUNT),
                                         !.readAt = Len(allScores)]}
    /\ UNCHANGED <<running, delivered, leaderboardCache, cacheTimestamp, now, broadcasts,
                   lastCacheUpdate, calls, cacheReadAt>>
    /\ UNCHANGED <<gameVars, input, output, ledgerVars>>

(* The call of getTopPlayers fails. *)
callFails(call) ==
    /\ call.stage = "reading"
    /\ handlers' = (handlers \ {call}) \cup {[call EXCEPT !.stage = "failed"]}
    /\ UNCHANGED <<running, delivered, leaderboardCache, cacheTimestamp, now, broadcasts,
                   lastCacheUpdate, calls, cacheReadAt>>
    /\ UNCHANGED <<gameVars, input, output, ledgerVars>>

(* What the caller of fetchLeaderboard does with the list it returned:     *)
(* GET /api/leaderboard answers with leaderboardCache, the timer emits     *)
(* leaderboardUpdate unless the list is empty, the call made when the      *)
(* module loads logs a line.                                               *)
callerGoesOn(call, failed, updated, cache, readAt) ==
    /\ output' = [op |-> IF call.caller = "request" THEN "GET /api/leaderboard"
                         ELSE "fetchLeaderboard",
                  call |-> call.call, fetched |-> TRUE, failed |-> failed,
                  status |-> IF call.caller = "request" THEN 200 ELSE 0,
                  body |-> IF call.caller = "request" THEN cache ELSE updated]
    /\ broadcasts' =
           IF call.caller = "interval" /\ Len(updated) > 0
           THEN Append(broadcasts, [name |-> "leaderboardUpdate", call |-> call.call,
                                    leaderboard |-> updated, readAt |-> readAt])
           ELSE broadcasts

(* Variant of fetchLeaderboardResumes: a failed read empties the cache. *)
fetchLeaderboardForgets(call) ==
    /\ call.stage \in {"resolved", "failed"}
    /\ handlers' = handlers \ {call}
    /\ IF call.stage = "resolved"
       THEN \E fetched \in {leaderboardFetched(call.topPlayers)} :
                /\ leaderboardCache' = fetched
                /\ lastCacheUpdate' = now
                /\ cacheReadAt' = call.readAt
                /\ callerGoesOn(call, FALSE, fetched, fetched, call.readAt)
       ELSE /\ leaderboardCache' = << >>
            /\ UNCHANGED <<lastCacheUpdate, cacheReadAt>>
            /\ callerGoesOn(call, TRUE, << >>, << >>, cacheReadAt)
    /\ UNCHANGED <<running, delivered, cacheTimestamp, now, calls>>
    /\ UNCHANGED <<gameVars, input, ledgerVars>>

(* fetchLeaderboard resumes after its await: the cache and lastCacheUpdate *)
(* are assigned and the cache is returned, or the catch block returns the  *)
(* cache as it is.                                                         *)
fetchLeaderboardResumes(call) ==
    /\ call.stage \in {"resolved", "failed"}
    /\ handlers' = handlers \ {call}
    /\ IF call.stage = "resolved"
       THEN \E fetched \in {leaderboardFetched(call.topPlayers)} :
                /\ leaderboardCache' = fetched
                /\ lastCacheUpdate' = now
                /\ cacheReadAt' = call.readAt
                /\ callerGoesOn(call, FALSE, fetched, fetched, call.readAt)
       ELSE /\ UNCHANGED <<leaderboardCache, lastCacheUpdate, cacheReadAt>>
            /\ callerGoesOn(call, TRUE, leaderboardCache, leaderboardCache, cacheReadAt)
    /\ UNCHANGED <<running, delivered, cacheTimestamp, now, calls>>
    /\ UNCHANGED <<gameVars, input, ledgerVars>>

NextFetch ==
    \/ \E sender \in Senders, _score \in SubmittedScores, _playerName \in PlayerNames :
           submitScore(sender, _score, _playerName)
    \/ timePasses
    \/ getLeaderboard
    \/ intervalFires
    \/ \E call \in handlers : callReturns(call)
    \/ \E call \in handlers : callFails(call)
    \/ \E call \in handlers : fetchLeaderboardResumes(call)

SpecFetch == InitFetch /\ [][NextFetch]_vars

--------------------------------------------------------------------------
(* Submitting a score from the App (src/unnamed/part_000, lines 466 to     *)
(* 576).  An async function is one step up to its first await and one step *)
(* per resumption; it works on the state of the render it was created in,  *)
(* which the call keeps with it.  A button calls its handler only while it *)
(* is shown and enabled.  contract is "provider" as initWeb3 makes it and  *)
(* "signer" once connectWallet has connected it to the signer; only the    *)
(* second can send a transaction.  checkNetwork and the function that      *)
(* awaits it go on in the same turn of the event loop: one step.  The      *)
(* awaits of connectWallet and handleSubmitScore are folded into their     *)
(* outcomes: between them they set isCorrectNetwork only.  A switch made   *)
(* by switchToFluentNetwork is a change of chain like any other.  The      *)
(* leaderboard state, the toasts and handleAccountsChanged (which clears   *)
(* account and signer as a change to a wrong chain does) are left out.     *)
(* The calls of async functions of the App explored. *)
MaxStarted == 3

Chains == {"fluent", "other"}

TypedNames == {"", " ", "ann"}

(* playerName.trim() *)
trimmed(name) == IF name = " " THEN "" ELSE name

appCall(kind) ==
    [id |-> started, kind |-> kind, stage |-> "checkNetwork", contract |-> contract,
     signer |-> signer, playerName |-> playerName, pendingScore |-> pendingScore,
     score |-> score, isFluentNetwork |-> FALSE]

(* The positions of the game a score is submitted from: the late position, *)
(* whose score is 0, and the chain with its free cells empty.              *)
SubmitPositions ==
    {[grid |-> LatePosition.grid, score |-> LatePosition.score],
     [grid |-> [index \in 1..CELL_COUNT |-> IF index \in chainCells THEN Chain[index] ELSE 0],
      score |-> chainScore]}

(* The page at one of these positions, initWeb3 done (contract is set     *)
(* unless it threw), the wallet connected or not.  A wallet connected      *)
(* while contract was still null leaves a contract without a signer.       *)
InitSubmit ==
    /\ LatePosition.ok
    /\ backendIdle
    /\ mounted = TRUE
    /\ \E position \in SubmitPositions :
           /\ grid = position.grid
           /\ score = position.score
           /\ bestScore = position.score
           /\ storedBest = position.score
           /\ gameOver = checkGameOver(position.grid)
    /\ last = NoOp
    /\ movesLeft = 0
    /\ gamesLeft = 0
    /\ input = << >>
    /\ output = NoOutput
    /\ chain \in Chains
    /\ \E connected \in BOOLEAN :
           /\ account = IF connected THEN "0xabc" ELSE Null
           /\ signer = IF connected THEN "signer" ELSE Null
           /\ contract \in IF connected THEN {Null, "provider", "signer"}
                            ELSE {Null, "provider"}
           /\ isCorrectNetwork = (connected \/ chain = "fluent")
    /\ playerName = ""
    /\ isSubmitting = FALSE
    /\ showNameModal = FALSE
    /\ pendingScore = 0
    /\ inFlight = {}
    /\ started = 0
    /\ transactions = << >>

(* The user switches the wallet to another chain, and handleChainChanged   *)
(* runs: on a wrong network the wallet is disconnected; back on Fluent     *)
(* with an address selected, connectWallet is called.                      *)
chainChanges(chainId, selectedAddress) ==
    /\ chainId # chain
    /\ chain' = chainId
    /\ isCorrectNetwork' = (chainId = "fluent")
    /\ IF chainId # "fluent" /\ account # Null
       THEN /\ account' = Null
            /\ signer' = Null
            /\ UNCHANGED <<inFlight, started>>
       ELSE IF chainId = "fluent" /\ account = Null /\ selectedAddress
       THEN /\ started < MaxStarted
            /\ inFlight' = inFlight \cup {appCall("connectWallet")}
            /\ started' = started + 1
            /\ UNCHANGED <<account, signer>>
       ELSE UNCHANGED <<account, signer, inFlight, started>>
    /\ UNCHANGED <<contract, playerName, isSubmitting, showNameModal, pendingScore,
                   transactions>>
    /\ UNCHANGED <<mounted, grid, score, bestScore, gameOver, storedBest, last,
                   movesLeft, gamesLeft, input, output, backendVars>>

(* connectWallet, called by the Connect Wallet button *)
connectWallet ==
    /\ started < MaxStarted
    /\ inFlight' = inFlight \cup {appCall("connectWallet")}
    /\ started' = started + 1
    /\ UNCHANGED <<account, signer, contract, playerName, isSubmitting, showNameModal,
                   pendingScore, isCorrectNetwork, chain, transactions>>
    /\ UNCHANGED <<mounted, grid, score, bestScore, gameOver, storedBest, last,
                   movesLeft, gamesLeft, input, output, backendVars>>

(* connectWallet reaches its end: the wallet is on Fluent, the accounts    *)
(* and the signer were given, and the contract the call was created with   *)
(* is connected.                                                           *)
walletConnects(c) ==
    /\ c.kind = "connectWallet"
    /\ chain = "fluent"
    /\ inFlight' = inFlight \ {c}
    /\ isCorrectNetwork' = TRUE
    /\ account' = "0xabc"
    /\ signer' = "signer"
    /\ contract' = IF c.contract # Null THEN "signer" ELSE contract
    /\ UNCHANGED <<playerName, isSubmitting, showNameModal, pendingScore, chain, started,
                   transactions>>
    /\ UNCHANGED <<mounted, grid, score, bestScore, gameOver, storedBest, last,
                   movesLeft, gamesLeft, input, output, backendVars>>

(* connectWallet or handleSubmitScore returns early or catches: the        *)
(* network was not switched, or a request was refused.                     *)
callGivesUp(c) ==
    /\ c.kind \in {"connectWallet", "handleSubmitScore"}
    /\ inFlight' = inFlight \ {c}
    /\ isCorrectNetwork' \in {isCorrectNetwork, chain = "fluent"}
    /\ UNCHANGED <<account, signer, contract, playerName, isSubmitting, showNameModal,
                   pendingScore, chain, started, transactions>>
    /\ UNCHANGED <<mounted, grid, score, bestScore, gameOver, storedBest, last,
                   movesLeft, gamesLeft, input, output, backendVars>>

(* handleSubmitScore, called by the Submit Score button (disabled while    *)
(* score is 0 or no account is connected)                                  *)
handleSubmitScore ==
    /\ score # 0
    /\ account # Null
    /\ started < MaxStarted
    /\ inFlight' = inFlight \cup {appCall("handleSubmitScore")}
    /\ started' = started + 1
    /\ UNCHANGED <<account, signer, contract, playerName, isSubmitting, showNameModal,
                   pendingScore, isCorrectNetwork, chain, transactions>>
    /\ UNCHANGED <<mounted, grid, score, bestScore, gameOver, storedBest, last,
                   movesLeft, gamesLeft, input, output, backendVars>>

(* handleSubmitScore reaches its end on the Fluent network: the name modal *)
(* opens for the score of the render the call was created in.              *)
nameModalOpens(c) ==
    /\ c.kind = "handleSubmitScore"
    /\ chain = "fluent"
    /\ inFlight' = inFlight \ {c}
    /\ isCorrectNetwork' = TRUE
    /\ pendingScore' = c.score
    /\ showNameModal' = TRUE
    /\ UNCHANGED <<account, signer, contract, playerName, isSubmitting, chain, started,
                   transactions>>
    /\ UNCHANGED <<mounted, grid, score, bestScore, gameOver, storedBest, last,
                   movesLeft, gamesLeft, input, output, backendVars>>

(* onChange of the name input *)
setPlayerName(name) ==
    /\ showNameModal
    /\ name # playerName
    /\ playerName' = name
    /\ UNCHANGED <<account, signer, contract, isSubmitting, showNameModal, pendingScore,
                   isCorrectNetwork, chain, inFlight, started, transactions>>
    /\ UNCHANGED <<mounted, grid, score, bestScore, gameOver, storedBest, last,
                   movesLeft, gamesLeft, input, output, backendVars>>

(* The Cancel button (disabled while isSubmitting) and the backdrop        *)
(* (!isSubmitting && setShowNameModal(false))                              *)
closeNameModal ==
    /\ showNameModal
    /\ ~isSubmitting
    /\ showNameModal' = FALSE
    /\ UNCHANGED <<account, signer, contract, playerName, isSubmitting, pendingScore,
                   isCorrectNetwork, chain, inFlight, started, transactions>>
    /\ UNCHANGED <<mounted, grid, score, bestScore, gameOver, storedBest, last,
                   movesLeft, gamesLeft, input, output, backendVars>>

(* submitScoreToBlockchain, called by the Submit button of the name modal  *)
(* (disabled while isSubmitting or the name is blank): it returns, or      *)
(* reaches await checkNetwork().                                           *)
submitScoreToBlockchain ==
    /\ showNameModal
    /\ ~isSubmitting
    /\ trimmed(playerName) # ""
    /\ started < MaxStarted
    /\ started' = started + 1
    /\ IF contract = Null \/ signer = Null \/ trimmed(playerName) = ""
       THEN /\ output' = [op |-> "submitScoreToBlockchain", id |-> started,
                          outcome |-> "returned"]
            /\ UNCHANGED inFlight
       ELSE /\ inFlight' = inFlight \cup {appCall("submitScoreToBlockchain")}
            /\ UNCHANGED output
    /\ UNCHANGED <<account, signer, contract, playerName, isSubmitting, showNameModal,
                   pendingScore, isCorrectNetwork, chain, transactions>>
    /\ UNCHANGED <<mounted, grid, score, bestScore, gameOver, storedBest, last,
                   movesLeft, gamesLeft, input, backendVars>>

(* Variant of networkChecked: the call goes on to the transaction whatever *)
(* checkNetwork returned.                                                  *)
networkCheckedIgnored(c, answered) ==
    /\ c.kind = "submitScoreToBlockchain"
    /\ c.stage = "checkNetwork"
    /\ isCorrectNetwork' = IF answered THEN chain = "fluent" ELSE isCorrectNetwork
    /\ isSubmitting' = TRUE
    /\ inFlight' = (inFlight \ {c}) \cup
                       {[c EXCEPT !.stage = "submitScore",
                                  !.isFluentNetwork = answered /\ chain = "fluent"]}
    /\ UNCHANGED <<showNameModal, output>>
    /\ UNCHANGED <<account, signer, contract, playerName, pendingScore, chain, started,
                   transactions>>
    /\ UNCHANGED <<mounted, grid, score, bestScore, gameOver, storedBest, last,
                   movesLeft, gamesLeft, input, backendVars>>

(* checkNetwork returns to submitScoreToBlockchain: the wallet answered    *)
(* eth_chainId with the chain it is on, or the request failed and          *)
(* checkNetwork returns false.  On the Fluent network isSubmitting is set  *)
(* and contract.submitScore is called; otherwise the modal is closed.      *)
networkChecked(c, answered) ==
    /\ c.kind = "submitScoreToBlockchain"
    /\ c.stage = "checkNetwork"
    /\ isCorrectNetwork' = IF answered THEN chain = "fluent" ELSE isCorrectNetwork
    /\ IF answered /\ chain = "fluent"
       THEN /\ isSubmitting' = TRUE
            /\ inFlight' = (inFlight \ {c}) \cup
                               {[c EXCEPT !.stage = "submitScore", !.isFluentNetwork = TRUE]}
            /\ UNCHANGED <<showNameModal, output>>
       ELSE /\ showNameModal' = FALSE
            /\ inFlight' = inFlight \ {c}
            /\ output' = [op |-> "submitScoreToBlockchain", id |-> c.id,
                          outcome |-> "wrong network"]
            /\ UNCHANGED isSubmitting
    /\ UNCHANGED <<account, signer, contract, playerName, pendingScore, chain, started,
                   transactions>>
    /\ UNCHANGED <<mounted, grid, score, bestScore, gameOver, storedBest, last,
                   movesLeft, gamesLeft, input, backendVars>>

(* contract.submitScore(pendingScore, playerName) resolves: the wallet has *)
(* signed and sent the transaction; what the call had read is kept with    *)
(* it.                                                                     *)
transactionSent(c) ==
    /\ c.kind = "submitScoreToBlockchain"
    /\ c.stage = "submitScore"
    /\ c.contract = "signer"
    /\ transactions' = Append(transactions,
                              [id |-> c.id, score |-> c.pendingScore,
                               playerName |-> c.playerName, contract |-> c.contract,
                               signer |-> c.signer,
                               isFluentNetwork |-> c.isFluentNetwork])
    /\ inFlight' = (inFlight \ {c}) \cup {[c EXCEPT !.stage = "wait"]}
    /\ UNCHANGED <<account, signer, contract, playerName, isSubmitting, showNameModal,
                   pendingScore, isCorrectNetwork, chain, started>>
    /\ UNCHANGED <<mounted, grid, score, bestScore, gameOver, storedBest, last,
                   movesLeft, gamesLeft, input, output, backendVars>>

(* tx.wait() resolves: the modal is closed; finally resets isSubmitting. *)
transactionMined(c) ==
    /\ c.kind = "submitScoreToBlockchain"
    /\ c.stage = "wait"
    /\ inFlight' = inFlight \ {c}
    /\ showNameModal' = FALSE
    /\ isSubmitting' = FALSE
    /\ output' = [op |-> "submitScoreToBlockchain", id |-> c.id, outcome |-> "submitted"]
    /\ UNCHANGED <<account, signer, contract, playerName, pendingScore, isCorrectNetwork,
                   chain, started, transactions>>
    /\ UNCHANGED <<mounted, grid, score, bestScore, gameOver, storedBest, last,
                   movesLeft, gamesLeft, input, backendVars>>

(* contract.submitScore or tx.wait() rejects (the contract has no signer,  *)
(* the user refuses, the funds do not suffice, the transaction reverts):   *)
(* the catch block reports it; finally resets isSubmitting.                *)
submissionFails(c) ==
    /\ c.kind = "submitScoreToBlockchain"
    /\ c.stage \in {"submitScore", "wait"}
    /\ inFlight' = inFlight \ {c}
    /\ isSubmitting' = FALSE
    /\ output' = [op |-> "submitScoreToBlockchain", id |-> c.id, outcome |-> "failed"]
    /\ UNCHANGED <<account, signer, contract, playerName, showNameModal, pendingScore,
                   isCorrectNetwork, chain, started, transactions>>
    /\ UNCHANGED <<mounted, grid, score, bestScore, gameOver, storedBest, last,
                   movesLeft, gamesLeft, input, backendVars>>

NextSubmit ==
    \/ \E chainId \in Chains, selectedAddress \in BOOLEAN :
           chainChanges(chainId, selectedAddress)
    \/ connectWallet
    \/ \E c \in inFlight : walletConnects(c)
    \/ \E c \in inFlight : callGivesUp(c)
    \/ handleSubmitScore
    \/ \E c \in inFlight : nameModalOpens(c)
    \/ \E name \in TypedNames : setPlayerName(name)
    \/ closeNameModal
    \/ submitScoreToBlockchain
    \/ \E c \in inFlight, answered \in BOOLEAN : networkChecked(c, answered)
    \/ \E c \in inFlight : transactionSent(c)
    \/ \E c \in inFlight : transactionMined(c)
    \/ \E c \in inFlight : submissionFails(c)

SpecSubmit == InitSubmit /\ [][NextSubmit]_vars

--------------------------------------------------------------------------
(* Properties of the game *)

RECURSIVE isPowerOfTwo(_)
isPowerOfTwo(v) ==
    IF v < 2 THEN FALSE
    ELSE IF v = 2 THEN TRUE
    ELSE v % 2 = 0 /\ isPowerOfTwo(v \div 2)

tiles(g) == {index \in 0..(Len(g) - 1) : At(g, index) # 0}

(* C1: in every grid reachable from initializeGrid or newGame by calls of  *)
(* move, every cell is 0 or a power of 2 that is at least 2.               *)
C1_CellsArePowersOfTwo ==
    \A index \in 0..(Len(grid) - 1) :
        At(grid, index) = 0 \/ isPowerOfTwo(At(grid, index))

(* A move has merged two 4s into an 8. *)
C1_Witness ==
    /\ last.op = "move"
    /\ last.points = 8
    /\ \E index \in 0..(Len(grid) - 1) : At(grid, index) = 8

(* C2: a move that changes the grid leaves, after slide and merge, at      *)
(* least one empty cell, and addNewTile writes exactly one tile, 2 or 4,   *)
(* into a cell that was empty and changes no other cell: one more tile     *)
(* than before the spawn.                                                  *)
C2_SpawnsOneTile ==
    [][(last'.op = "move" /\ last'.moved) =>
          \A slid \in {slideGrid(grid, last'.dir)} :
              /\ emptyCells(slid) # {}
              /\ Len(grid') = Len(slid)
              /\ \E index \in emptyCells(slid) :
                     /\ At(grid', index) \in {2, 4}
                     /\ \A other \in (0..(Len(slid) - 1)) \ {index} :
                            At(grid', other) = At(slid, other)
              /\ Cardinality(tiles(grid')) = Cardinality(tiles(slid)) + 1]_vars

(* A move merged tiles of a grid and the spawn filled the last empty cell. *)
C2_Witness ==
    /\ last.op = "move"
    /\ last.moved
    /\ last.points > 0
    /\ emptyCells(grid) = {}

(* C3: a move in a direction in which no cell changes is a no-op: moved is *)
(* false, zero points, no spawn, the grid, score, bestScore and gameOver   *)
(* (and the stored bestScore) as they were.                                *)
C3_NoOpMove ==
    [][(last'.op = "move" /\ slideGrid(grid, last'.dir) = grid) =>
          /\ ~last'.moved
          /\ last'.points = 0
          /\ grid' = grid
          /\ score' = score
          /\ bestScore' = bestScore
          /\ gameOver' = gameOver
          /\ storedBest' = storedBest]_vars

(* A move was called in a direction in which nothing moves, the game not   *)
(* over.                                                                   *)
C3_Witness ==
    /\ last.op = "move"
    /\ ~last.moved
    /\ ~gameOver
    /\ \A slid \in {slideGrid(grid, last.dir)} : slid = grid

(* C8: initializeGrid (at mount and on newGame) returns N * N cells of     *)
(* which exactly two are tiles, each 2 or 4, the others 0: fourteen zero   *)
(* cells for N = 4.                                                        *)
C8_TwoTilesAtStart ==
    last.op \in {"mount", "newGame"} =>
        /\ Len(grid) = GRID_SIZE * GRID_SIZE
        /\ Cardinality(tiles(grid)) = 2
        /\ \A index \in tiles(grid) : At(grid, index) \in {2, 4}
        /\ Cardinality(emptyCells(grid)) = 14

(* newGame returned a grid with a 2 and a 4. *)
C8_Witness ==
    /\ last.op = "newGame"
    /\ {At(grid, index) : index \in tiles(grid)} = {2, 4}

(* C9 as amended: once the mount effect has run the grid has N * N cells,  *)
(* after any moves and new games; the grid held before it is the empty     *)
(* array.                                                                  *)
C9_LengthOnceMounted ==
    /\ mounted => Len(grid) = GRID_SIZE * GRID_SIZE
    /\ ~mounted => Len(grid) = 0

(* A move has changed the grid. *)
C9_Witness ==
    /\ mounted
    /\ last.op = "move"
    /\ last.moved

(* C9 as stated: every grid, the one held before the first initialization  *)
(* included, has N * N cells.                                              *)
C9_LengthAlways == Len(grid) = GRID_SIZE * GRID_SIZE

--------------------------------------------------------------------------
(* Properties of the pure functions *)

(* A line read from the edge its tiles move toward. *)
headFirst(line, direction) ==
    IF direction \in {"left", "up"} THEN line ELSE Reverse(line)

RECURSIVE sumSeq(_)
sumSeq(q) == IF q = << >> THEN 0 ELSE Head(q) + sumSeq(Tail(q))

(* The ways to cut n tiles into consecutive blocks of one or two. *)
blockings(n) ==
    {b \in UNION {[1..m -> {1, 2}] : m \in 0..n} : sumSeq(b) = n}

firstOf(b, k) == 1 + sumSeq(SubSeq(b, 1, k - 1))

(* C4: within one move each tile takes part in at most one merge. The      *)
(* tiles of a line, read from the edge they move toward, fall into blocks  *)
(* of one tile, kept as it is, and of two equal tiles v, which become one  *)
(* tile 2v; the scan merges the first equal pair it meets, so a tile kept  *)
(* as it is differs from the tile after it; the blocks fill the line from  *)
(* that edge and zeros follow; the points are the sum of the tiles the     *)
(* merges created.  [2,2,2,2] and [2,2,4,0] both become [4,4,0,0].         *)
C4_OneMergePerTile ==
    output.op = "moveLine" =>
        \A f \in {filtered(headFirst(input, output.dir))},
           r \in {headFirst(output.line, output.dir)} :
            /\ Len(r) = GRID_SIZE
            /\ \E b \in blockings(Len(f)) :
                   /\ \A k \in 1..Len(b) :
                          /\ b[k] = 2 => /\ f[firstOf(b, k)] = f[firstOf(b, k) + 1]
                                         /\ r[k] = 2 * f[firstOf(b, k)]
                          /\ b[k] = 1 => /\ r[k] = f[firstOf(b, k)]
                                         /\ firstOf(b, k) < Len(f) =>
                                                f[firstOf(b, k) + 1] # f[firstOf(b, k)]
                   /\ \A k \in (Len(b) + 1)..GRID_SIZE : r[k] = 0
                   /\ output.points =
                          sumSeq([k \in 1..Len(b) |-> IF b[k] = 2 THEN r[k] ELSE 0])
            /\ (input = <<2, 2, 2, 2>> /\ output.dir = "left") =>
                   (output.line = <<4, 4, 0, 0>> /\ output.points = 8)
            /\ (input = <<2, 2, 4, 0>> /\ output.dir = "left") =>
                   (output.line = <<4, 4, 0, 0>> /\ output.points = 4)

(* The line [2,2,2,2] was moved left: two merges, 8 points. *)
C4_Witness ==
    /\ output.op = "moveLine"
    /\ output.dir = "left"
    /\ input = <<2, 2, 2, 2>>
    /\ output.points = 8

(* C10 as amended: a move right of the row [4,2,2,4] produces, before the  *)
(* spawn, the row [0,4,4,4], with points = 4 and moved = true.             *)
C10_RowMovedRight ==
    (output.op = "moveLine" /\ output.dir = "right" /\ input = <<4, 2, 2, 4>>) =>
        /\ output.line = <<0, 4, 4, 4>>
        /\ output.points = 4
        /\ output.moved = TRUE

(* The row [4,2,2,4] was moved right. *)
C10_Witness ==
    /\ output.op = "moveLine"
    /\ output.dir = "right"
    /\ input = <<4, 2, 2, 4>>
    /\ output.moved

(* C10 as stated: the row produced is [4,4,4,0]. *)
C10_RowAsStated ==
    (output.op = "moveLine" /\ output.dir = "right" /\ input = <<4, 2, 2, 4>>) =>
        /\ output.line = <<4, 4, 4, 0>>
        /\ output.points = 4
        /\ output.moved = TRUE

(* Row i of a grid, as the sequence of its GRID_SIZE cells. *)
rowCells(g, i) == [j \in 1..GRID_SIZE |-> At(g, i * GRID_SIZE + j - 1)]

(* The grids whose only tiles are two 2s in row 0. *)
twoTwosInRowZero(g) ==
    /\ Len(g) = CELL_COUNT
    /\ Cardinality(tiles(g)) = 2
    /\ \A index \in tiles(g) : index < GRID_SIZE /\ At(g, index) = 2

(* C11: the slide closes gaps before merging. For a grid whose only tiles  *)
(* are two 2s in row 0, adjacent ([2,2,0,0]) or separated by empty cells   *)
(* ([2,0,2,0]), a move left makes row 0 equal to [4,0,0,0] before the      *)
(* spawn, with points = 4 and moved = true.                                *)
C11_SlideClosesGaps ==
    (output.op = "slide" /\ output.dir = "left" /\ twoTwosInRowZero(input)) =>
        /\ rowCells(output.grid, 0) = <<4, 0, 0, 0>>
        /\ output.points = 4
        /\ output.moved = TRUE

(* The grid whose row 0 is [2,0,2,0] was moved left. *)
C11_Witness ==
    /\ output.op = "slide"
    /\ output.dir = "left"
    /\ rowCells(input, 0) = <<2, 0, 2, 0>>
    /\ twoTwosInRowZero(input)
    /\ At(output.grid, 0) = 4

(* How many cells of a grid hold the value v. *)
valueCount(g, v) == Cardinality({index \in 0..(Len(g) - 1) : At(g, index) = v})

tileValues(g) == {At(g, index) : index \in tiles(g)}

(* C12: a move that changes the grid and merges nothing (points = 0 and    *)
(* moved = true) only relocates tiles: the pre-spawn result holds every    *)
(* non-zero value as many times as the grid before the move, and in each   *)
(* line (row for left and right, column for up and down) the tiles keep    *)
(* their relative order.                                                   *)
C12_NoMergeRelocates ==
    (output.op = "slide" /\ output.points = 0 /\ output.moved) =>
        /\ Len(output.grid) = Len(input)
        /\ \A v \in tileValues(input) \cup tileValues(output.grid) :
               valueCount(output.grid, v) = valueCount(input, v)
        /\ \A n \in 0..(GRID_SIZE - 1) :
               filtered(gridLine(output.grid, output.dir, n))
                   = filtered(gridLine(input, output.dir, n))

(* A move without a merge moved a line that holds two different tiles. *)
C12_Witness ==
    /\ output.op = "slide"
    /\ output.points = 0
    /\ output.moved
    /\ \E n \in 0..(GRID_SIZE - 1) :
           /\ gridLine(output.grid, output.dir, n) # gridLine(input, output.dir, n)
           /\ Len(filtered(gridLine(input, output.dir, n))) >= 2

reversedRows(g) ==
    [index \in 1..CELL_COUNT |->
        g[((index - 1) \div GRID_SIZE) * GRID_SIZE + (GRID_SIZE - 1 - ((index - 1) % GRID_SIZE)) + 1]]

transposed(g) ==
    [index \in 1..CELL_COUNT |->
        g[((index - 1) % GRID_SIZE) * GRID_SIZE + ((index - 1) \div GRID_SIZE) + 1]]

(* C17: the four directions are one algorithm under symmetry. The          *)
(* pre-spawn result and the points of move right are those of move left on *)
(* the grid with each row reversed, reversed back; move up is move left on *)
(* the transposed grid, transposed back; move down is move right on the    *)
(* transposed grid, transposed back; and every line of the result is the   *)
(* moved line of the same line of the grid, whatever the other lines hold. *)
C17_DirectionsBySymmetry ==
    output.op = "slide" =>
        /\ output.dir = "right" =>
               /\ output.grid = reversedRows(slideGrid(reversedRows(input), "left"))
               /\ output.points = gridPoints(reversedRows(input), "left")
        /\ output.dir = "up" =>
               /\ output.grid = transposed(slideGrid(transposed(input), "left"))
               /\ output.points = gridPoints(transposed(input), "left")
        /\ output.dir = "down" =>
               /\ output.grid = transposed(slideGrid(transposed(input), "right"))
               /\ output.points = gridPoints(transposed(input), "right")
        /\ \A n \in 0..(GRID_SIZE - 1) :
               /\ gridLine(output.grid, output.dir, n)
                      = headFirst(moveRow(headFirst(gridLine(input, output.dir, n), output.dir)),
                                  output.dir)
               /\ \A k \in 0..(GRID_SIZE - 1) :
                      At(gridLine(output.grid, output.dir, n), k)
                          = At(output.grid, IF output.dir \in {"left", "right"}
                                            THEN n * GRID_SIZE + k ELSE k * GRID_SIZE + n)

(* A move down merged tiles of a grid that its transposition changes. *)
C17_Witness ==
    /\ output.op = "slide"
    /\ output.dir = "down"
    /\ output.points > 0
    /\ transposed(input) # input
    /\ reversedRows(input) # input

rowOf(index) == index \div GRID_SIZE

columnOf(index) == index % GRID_SIZE

(* Two cells next to each other in a row or in a column. *)
adjacent(p, q) ==
    \/ rowOf(p) = rowOf(q) /\ (columnOf(p) = columnOf(q) + 1 \/ columnOf(q) = columnOf(p) + 1)
    \/ columnOf(p) = columnOf(q) /\ (rowOf(p) = rowOf(q) + 1 \/ rowOf(q) = rowOf(p) + 1)

terminal(g) ==
    /\ \A index \in 0..(Len(g) - 1) : At(g, index) # 0
    /\ \A p \in 0..(CELL_COUNT - 1), q \in 0..(CELL_COUNT - 1) :
           adjacent(p, q) => At(g, p) # At(g, q)

(* C5: checkGameOver(grid) is true if and only if the grid has no 0 cell   *)
(* and no two cells adjacent in a row or a column hold equal values; equal *)
(* values on a diagonal or across the end of a row do not count.           *)
C5_CheckGameOverIffTerminal ==
    output.op = "checkGameOver" => (output.result <=> terminal(input))

(* checkGameOver returned true for a grid whose last cell of row 0 equals  *)
(* the first cell of row 1 and whose cell (0,0) equals cell (1,1).         *)
C5_Witness ==
    /\ output.op = "checkGameOver"
    /\ output.result
    /\ At(input, GRID_SIZE - 1) = At(input, GRID_SIZE)
    /\ At(input, 0) = At(input, GRID_SIZE + 1)

--------------------------------------------------------------------------
(* Properties of the ledger *)

minimum(S) == CHOOSE x \in S : \A y \in S : x <= y

(* C15: after any sequence of submitScore calls, getTopPlayers(k) returns  *)
(* exactly min(k, number of registered players, 100) entries, each the     *)
(* stored entry of a different registered player, ordered by               *)
(* non-increasing highScore, and every player not returned has a highScore *)
(* less than or equal to that of every returned entry.                     *)
C15_TopPlayers ==
    output.op = "getTopPlayers" =>
        \A top \in {output.result} :
            /\ Len(top) = minimum({output.count, Len(players), 100})
            /\ \A i \in 1..Len(top) :
                   /\ \E p \in 1..Len(players) : players[p] = top[i].player
                   /\ top[i] = statsOf(playerStats, top[i].player)
                   /\ \A j \in (i + 1)..Len(top) :
                          /\ top[i].player # top[j].player
                          /\ top[i].highScore >= top[j].highScore
            /\ \A p \in 1..Len(players) :
                   (\A i \in 1..Len(top) : top[i].player # players[p]) =>
                       \A i \in 1..Len(top) :
                           statsOf(playerStats, players[p]).highScore <= top[i].highScore

(* getTopPlayers was asked for more entries than MAX_LEADERBOARD_SIZE of a *)
(* ledger with more players than that, not registered in the order of     *)
(* their scores, and returned MAX_LEADERBOARD_SIZE entries.                *)
C15_Witness ==
    /\ output.op = "getTopPlayers"
    /\ output.count > MAX_LEADERBOARD_SIZE
    /\ Len(players) > MAX_LEADERBOARD_SIZE
    /\ Len(output.result) = MAX_LEADERBOARD_SIZE
    /\ statsOf(playerStats, players[1]).highScore < output.result[1].highScore

--------------------------------------------------------------------------
(* Properties of the relay *)

(* The relay has nothing left to do for the events emitted so far: every   *)
(* event reached its listener and every handler ended, or the process      *)
(* exited.                                                                 *)
relayDone == ~running \/ (delivered = Len(events) /\ handlers = {})

(* The submitScore call that emitted event k: every accepted call emits    *)
(* one GamePlayed, last.                                                   *)
submissionOf(k) ==
    1 + Cardinality({e \in 1..(k - 1) : events[e].name = "GamePlayed"})

(* C16: whenever the ledger records a new high score, the relay eventually *)
(* broadcasts a newHighScore notification and a leaderboardUpdate carrying *)
(* a snapshot read after that submission. A relay that has nothing left to *)
(* do broadcasts nothing more for the events emitted so far, so by then    *)
(* each NewHighScore event has its two broadcasts.                         *)
C16_HighScoreBroadcast ==
    relayDone =>
        \A k \in 1..Len(events) :
            events[k].name = "NewHighScore" =>
                /\ \E b \in 1..Len(broadcasts) :
                       /\ broadcasts[b].name = "newHighScore"
                       /\ broadcasts[b].event = k
                /\ \E b \in 1..Len(broadcasts) :
                       /\ broadcasts[b].name = "leaderboardUpdate"
                       /\ broadcasts[b].event = k
                       /\ broadcasts[b].readAt >= submissionOf(k)

--------------------------------------------------------------------------
(* Properties of the end of a game *)

(* C6: in every reachable state gameOver is true if and only if the grid   *)
(* (the one after the spawn) satisfies checkGameOver, and gameOver becomes *)
(* true only in a move that changed the grid, on the grid after the spawn. *)
C6_GameOverIffTerminal ==
    /\ [](gameOver <=> checkGameOver(grid))
    /\ [][(~gameOver /\ gameOver') =>
             (last'.op = "move" /\ last'.moved /\ checkGameOver(grid'))]_vars

(* A move has changed the grid and ended the game. *)
C6_Witness ==
    /\ gameOver
    /\ last.op = "move"
    /\ last.moved

(* C7: once the game is over, a move in any direction leaves the grid and  *)
(* the score as they are and spawns no tile, and only newGame ends that    *)
(* state; on such a grid slide and merge change no cell in any of the four *)
(* directions, so moved is false without the early return too.             *)
C7_TerminalAbsorbing ==
    /\ [][gameOver =>
             \/ last'.op = "newGame" /\ ~gameOver'
             \/ grid' = grid /\ score' = score /\ gameOver']_vars
    /\ [](gameOver =>
             \A direction \in Directions :
                 ~gridMoved(grid, direction) /\ slideGrid(grid, direction) = grid)

(* move was called when the game was over. *)
C7_Witness ==
    /\ gameOver
    /\ last.op = "move"
    /\ ~last.moved

(* C13 as amended: a grid becomes terminal only through a move whose spawn *)
(* fills the last empty cell. Whenever a move takes the game from Active   *)
(* to Terminal, the move changed the grid, its pre-spawn result had        *)
(* exactly one empty cell and the spawn filled it; either the move merged  *)
(* nothing (zero points) on a grid with one empty cell, or it merged       *)
(* exactly one pair of a full grid and the spawn filled the cell the merge *)
(* freed.                                                                  *)
C13_TerminalBySpawnInLastCell ==
    [][(~gameOver /\ gameOver') =>
          \A slid \in {slideGrid(grid, last'.dir)} :
              /\ last'.op = "move"
              /\ last'.moved
              /\ Cardinality(emptyCells(slid)) = 1
              /\ emptyCells(grid') = {}
              /\ \/ /\ last'.points = 0
                    /\ Cardinality(emptyCells(grid)) = 1
                 \/ /\ last'.points > 0
                    /\ emptyCells(grid) = {}
                    /\ Cardinality(tiles(slid)) = Cardinality(tiles(grid)) - 1]_vars

(* A move that merged a pair of a full grid has ended the game. *)
C13_Witness ==
    /\ gameOver
    /\ last.op = "move"
    /\ last.moved
    /\ last.points > 0

(* C13 as stated: a move that takes the game from Active to Terminal       *)
(* earned zero points and its spawn filled the last empty cell.            *)
C13_TerminalOnlyWithoutMerge ==
    [][(~gameOver /\ gameOver') =>
          /\ last'.op = "move"
          /\ last'.points = 0
          /\ Cardinality(emptyCells(slideGrid(grid, last'.dir))) = 1
          /\ emptyCells(grid') = {}]_vars

(* C18: the game never gets stuck in the Active state. In every reachable  *)
(* state of a started game, the grid has no direction with moved = true if *)
(* and only if checkGameOver(grid) is true: a grid with an empty cell or   *)
(* an adjacent equal pair can be moved in some direction, and a terminal   *)
(* grid in none.                                                           *)
C18_NeverStuck ==
    mounted =>
        /\ checkGameOver(grid) <=> (\A direction \in Directions : ~gridMoved(grid, direction))
        /\ ~terminal(grid) => \E direction \in Directions : gridMoved(grid, direction)

(* A full grid whose only equal neighbours are in one row: it moves left   *)
(* and right, not up or down.                                              *)
C18_Witness ==
    /\ mounted
    /\ emptyCells(grid) = {}
    /\ ~gameOver
    /\ ~gridMoved(grid, "up")
    /\ ~gridMoved(grid, "down")
    /\ gridMoved(grid, "left")

(* C19: slide and merge conserve the total tile value. For every call of   *)
(* move the cells of the pre-spawn result sum to what the cells of the     *)
(* grid summed to before the move; after a move that changed the grid the  *)
(* sum has grown by exactly the spawned tile, 2 or 4; after a move that    *)
(* changed nothing it is as it was.                                        *)
C19_SumConserved ==
    [][last'.op = "move" =>
          \A before \in {sumSeq(grid)} :
              /\ sumSeq(slideGrid(grid, last'.dir)) = before
              /\ last'.moved => sumSeq(grid') - before \in {2, 4}
              /\ ~last'.moved => sumSeq(grid') = before]_vars

(* A move merged tiles worth 8 points or more and left empty cells after   *)
(* the spawn.                                                              *)
C19_Witness ==
    /\ last.op = "move"
    /\ last.moved
    /\ last.points >= 8
    /\ emptyCells(grid) # {}

entriesOf(address) == {k \in 1..Len(allScores) : allScores[k].player = address}

maximum(S) == IF S = {} THEN 0 ELSE CHOOSE x \in S : \A y \in S : y <= x

(* Every address the ledger mentions, the callers explored, and address(0). *)
Addresses ==
    {0} \cup Senders \cup DOMAIN playerStats
        \cup {players[i] : i \in 1..Len(players)}
        \cup {allScores[k].player : k \in 1..Len(allScores)}

(* C22: the per-player stats agree with the score log. For every address,   *)
(* gamesPlayed is the number of its entries in allScores, totalScore their  *)
(* sum and highScore their maximum; an address is in players exactly once   *)
(* if it has submitted a score and not at all otherwise; and                *)
(* getTotalGamesPlayed is the sum of gamesPlayed over the players.          *)
C22_StatsAgreeWithLog ==
    /\ \A address \in Addresses :
           \E entry \in {statsOf(playerStats, address)}, sent \in {entriesOf(address)} :
               /\ entry.gamesPlayed = Cardinality(sent)
               /\ entry.totalScore = Sum([k \in sent |-> allScores[k].score], sent)
               /\ entry.highScore = maximum({allScores[k].score : k \in sent})
               /\ Cardinality({i \in 1..Len(players) : players[i] = address})
                      = IF sent # {} THEN 1 ELSE 0
    /\ getTotalGamesPlayed(ledger)
           = sumSeq([i \in 1..Len(players) |-> statsOf(playerStats, players[i]).gamesPlayed])

(* Three scores are logged, two of them by one address, a 3 and a 1, and   *)
(* one by another.                                                          *)
C22_Witness ==
    /\ output.op = "submitScore"
    /\ ~output.reverted
    /\ Len(allScores) = 3
    /\ Len(players) = 2
    /\ \E address \in Senders :
           /\ statsOf(playerStats, address).gamesPlayed = 2
           /\ statsOf(playerStats, address).highScore = 3
           /\ statsOf(playerStats, address).totalScore = 4

(* C23: submitScore with a score of 0 or an empty player name is rejected,  *)
(* and a rejected call leaves allScores, playerStats and players as they    *)
(* were and emits no event.                                                 *)
C23_RejectedLeavesLedger ==
    [][(output'.op = "submitScore" /\ submitsLeft' < submitsLeft) =>
          /\ (output'.score = 0 \/ output'.playerName = "") => output'.reverted
          /\ output'.reverted =>
                 /\ allScores' = allScores
                 /\ playerStats' = playerStats
                 /\ players' = players
                 /\ events' = events]_vars

(* A call with a score and without a name was rejected by a ledger that     *)
(* holds scores.                                                            *)
C23_Witness ==
    /\ output.op = "submitScore"
    /\ output.reverted
    /\ output.score > 0
    /\ output.playerName = ""
    /\ allScores # << >>
    /\ events # << >>

(* C24: every accepted submitScore emits exactly one GamePlayed event; it   *)
(* emits NewHighScore, before that GamePlayed, if and only if the submitted *)
(* score is strictly greater than the caller's previous highScore, and only *)
(* in that case is the stored playerName replaced by the submitted name; a  *)
(* first submission always counts as a new high score.                      *)
C24_EventsOfSubmit ==
    [][(output'.op = "submitScore" /\ submitsLeft' < submitsLeft /\ ~output'.reverted) =>
          LET sender == output'.sender
              before == statsOf(playerStats, sender)
              high == output'.score > before.highScore
              gamePlayed == [name |-> "GamePlayed", player |-> sender, score |-> output'.score]
              highScored == [name |-> "NewHighScore", player |-> sender,
                             playerName |-> output'.playerName, score |-> output'.score]
          IN  /\ events' = events \o (IF high THEN <<highScored, gamePlayed>> ELSE <<gamePlayed>>)
              /\ statsOf(playerStats', sender).playerName
                     = IF high THEN output'.playerName ELSE before.playerName
              /\ before.gamesPlayed = 0 => high]_vars

(* A caller whose score was not above its highScore submitted under another *)
(* name: the call was accepted and the stored name is the earlier one.      *)
C24_Witness ==
    /\ output.op = "submitScore"
    /\ ~output.reverted
    /\ statsOf(playerStats, output.sender).playerName # output.playerName
    /\ statsOf(playerStats, output.sender).highScore = output.score
    /\ events[Len(events) - 1].name = "GamePlayed"

(* The ledger as it was when allScores held k entries, and the list        *)
(* fetchLeaderboard makes of a read of it.                                  *)
RECURSIVE ledgerAt(_)
ledgerAt(k) ==
    IF k = 0 THEN EmptyLedger
    ELSE submitted(ledgerAt(k - 1), allScores[k].player, allScores[k].score,
                   allScores[k].playerName)

snapshotAt(k) == leaderboardFetched(getTopPlayers(ledgerAt(k), FETCH_TOP_COUNT))

(* C25: when reading the leaderboard fails, fetchLeaderboard leaves         *)
(* leaderboardCache and lastCacheUpdate unchanged and returns the cached    *)
(* list, so GET /api/leaderboard answers 200 with the cached data; and      *)
(* every leaderboardUpdate broadcast carries a list that was fetched from   *)
(* the ledger.                                                              *)
C25_FailedReadKeepsCache ==
    /\ [][\A call \in handlers \ handlers' :
              call.stage = "failed" =>
                  /\ leaderboardCache' = leaderboardCache
                  /\ lastCacheUpdate' = lastCacheUpdate
                  /\ output'.call = call.call
                  /\ output'.failed
                  /\ output'.body = leaderboardCache
                  /\ call.caller = "request" =>
                         (output'.op = "GET /api/leaderboard" /\ output'.status = 200)]_vars
    /\ [](\A k \in 1..Len(broadcasts) :
              /\ broadcasts[k].readAt \in 0..Len(allScores)
              /\ broadcasts[k].leaderboard = snapshotAt(broadcasts[k].readAt))

(* A request found the cache expired, its read failed, and it was answered  *)
(* with the list cached before.                                             *)
C25_Witness ==
    /\ output.op = "GET /api/leaderboard"
    /\ output.fetched
    /\ output.failed
    /\ output.status = 200
    /\ output.body # << >>

(* C26: under any interleaving of requests and handlers that await a read   *)
(* of the ledger before they assign the cache, the cache is never           *)
(* overwritten by a snapshot read from the ledger earlier than the one it   *)
(* holds, and its timestamp never moves backwards.                          *)
C26_CacheNeverOlder ==
    [][/\ cacheReadAt' >= cacheReadAt
       /\ lastCacheUpdate' >= lastCacheUpdate]_vars

(* The calls of submitScoreToBlockchain in flight *)
attempts == {c \in inFlight : c.kind = "submitScoreToBlockchain"}

(* The call has returned or its promise has settled. *)
attemptEnds(c) == \A d \in inFlight' : d.id # c.id

TypeOK ==
    /\ mounted \in BOOLEAN
    /\ gameOver \in BOOLEAN
    /\ score \in Nat
    /\ bestScore \in Nat

=============================================================================
